---- MODULE Spec2Model ----
(***************************************************************************)
(* Feature-lifecycle orchestration core of the Claude Voyager content      *)
(* script (src/src/pages/content/index.ts) together with the services it   *)
(* calls: the registry of feature modules, the set of active features,     *)
(* settings reconciliation, SPA navigation detection and the debounced     *)
(* message observer.                                                       *)
(*                                                                         *)
(* The event loop is single threaded: every action below is one            *)
(* synchronous turn (a message dispatch, a timer callback, the             *)
(* continuation after an await).  Feature modules are black boxes: each    *)
(* call of init / destroy / onNavigate / onMessagesChanged either returns  *)
(* or throws, chosen nondeterministically per call.                        *)
(*                                                                         *)
(* watch, last and hist are history variables.  watch is one feature key,  *)
(* chosen arbitrarily at the start and never changed; last records what    *)
(* the most recent turn did to the watched key and hist counts the calls   *)
(* made on it, so that properties about calls can be stated for every key. *)
(* They never influence the program variables.                             *)
(***************************************************************************)
EXTENDS Integers, Sequences, FiniteSets, Bags, TLC

\* ------------------------------------------------------------------------
\* Bounds of the model (not program constants)
\* ------------------------------------------------------------------------

\* number of message handlers that may be suspended on an await at once
MaxInFlight == 1

\* number of timers that may be pending at once
MaxTimers == 2

\* number of Storage.getStarred() calls of the Timeline module that may be
\* pending at once
MaxLoads == 2

\* ------------------------------------------------------------------------
\* Feature keys and the hooks each module implements
\* ------------------------------------------------------------------------

\* Keys in the order of DEFAULT_FEATURE_TOGGLES, which is the order of
\* Object.keys(settings.features) after normalizeSettings.  Three of the
\* seven keys are modelled: they cover every combination of optional hooks
\* needed (two modules with onNavigate, two with onMessagesChanged).
FeatureKeys == <<"timeline", "folders", "formulaCopy">>

Range(s) == {s[i] : i \in 1..Len(s)}

Keys == Range(FeatureKeys)

\* modules that define onNavigate
HasOnNavigate == {"timeline", "folders"}

\* modules that define onMessagesChanged
HasOnMessagesChanged == {"timeline", "formulaCopy"}

\* ------------------------------------------------------------------------
\* URL paths and DOM.getConversationId
\* ------------------------------------------------------------------------

\* A path is the sequence of its segments, a segment a sequence of
\* characters: "/chat/a1" is <<Chat, <<"a","1">>>>.
Chat == <<"c", "h", "a", "t">>

\* [a-f0-9-] under the /i flag
HexChars == {"a", "b", "c", "d", "e", "f", "A", "B", "C", "D", "E", "F",
             "0", "1", "2", "3", "4", "5", "6", "7", "8", "9", "-"}

\* lower-casing of the letters of "chat" (the /i flag on the literal part)
Lower(ch) == CASE ch = "C" -> "c" [] ch = "H" -> "h" [] ch = "A" -> "a"
               [] ch = "T" -> "t" [] OTHER -> ch

LowerSeg(seg) == [i \in 1..Len(seg) |-> Lower(seg[i])]

\* length of the longest prefix of seg made of hex characters: ([a-f0-9-]+)
HexPrefixLen(seg) ==
  LET bad == {i \in 1..Len(seg) : seg[i] \notin HexChars}
  IN  IF bad = {} THEN Len(seg)
      ELSE (CHOOSE i \in bad : \A j \in bad : i <= j) - 1

\* null
NoId == <<>>

\* /\/chat\/([a-f0-9-]+)/i.exec(pathname): the first "/chat/" that is
\* followed by at least one hex character; the capture is the hex run.
getConversationId(p) ==
  LET hits == {i \in 1..(Len(p) - 1) :
                 /\ LowerSeg(p[i]) = Chat
                 /\ HexPrefixLen(p[i + 1]) > 0}
  IN  IF hits = {} THEN NoId
      ELSE LET i == CHOOSE h \in hits : \A g \in hits : h <= g
           IN  SubSeq(p[i + 1], 1, HexPrefixLen(p[i + 1]))

\* the paths the page visits in the model
PathNew == << <<"n", "e", "w">> >>
PathChatA == <<Chat, <<"a", "1">>>>
PathChatB == << <<"p">>, <<"C", "h", "a", "t">>, <<"b", "-", "x">> >>

Paths == {PathNew, PathChatA, PathChatB}

\* ------------------------------------------------------------------------
\* DOM elements
\* ------------------------------------------------------------------------

\* null element
NoEl == "none"

\* the main content containers the page may render
Elements == {"main1", "main2"}

VARIABLES
  features,            \* registry: the keys that have a module registered
  activeFeatures,      \* Set<FeatureKey> in insertion order
  lastPath,            \* navigation cursor
  sidebarPinningEnabled,
  main,                \* main(): [pc, snap] and the installed triggers of
                       \* checkNavigation
  handlers,            \* bag of message handlers suspended on an await
  settings,            \* stored feature flags (storage.local)
  path,                \* window.location.pathname
  container,           \* element matching Selectors.mainContent, or NoEl
  observers,           \* target of the 'messages' MutationObserver, or NoEl
  connected,           \* bag of the targets of the connected MutationObservers
  timers,              \* pending setTimeout callbacks
  debounceTimer,       \* timer variable of the connected observer's debounce
  messageObserverRetryTimer,
  acquisition,         \* history: how the last setupMessageObserver run ended
  timeline,            \* the Timeline module: its state, its DOM nodes, its
                       \* pending timers and promises (followed by the
                       \* module's own actions only)
  messaging,           \* the Messaging service of the counterpart context
                       \* and one send in flight towards it
  background,          \* the background script: its message handlers in
                       \* flight, and the messages it has sent to the tab
                       \* that are not dispatched yet
  hooks,               \* navigationListenerReady, the wrappers installed on
                       \* the history functions, the popstate/hashchange
                       \* listeners and (history) the last history call
  storage,             \* one Storage instance: the settings updates it was
                       \* called with, in call order, and (history) the
                       \* configuration they produce
  debounced,           \* one function wrapped by debounce: the clock, its
                       \* timer variable, the pending timers and (history)
                       \* its calls and the invocations of fn
  popup,               \* the popup component: its settings state and ref,
                       \* and the setting changes it has queued
  local,               \* the value stored under the settings key as it is
                       \* (any shape), and one Storage.getSettings call
  watch,               \* history: the key that last and hist are about
  last,                \* history: what the last turn did to the watched key
  hist                 \* history: call counters of the watched key

vars == <<features, activeFeatures, lastPath, sidebarPinningEnabled, main,
          handlers, settings, path, container, observers, connected,
          timers, debounceTimer, messageObserverRetryTimer, acquisition,
          timeline, messaging, background, hooks, storage, debounced,
          popup, local, watch, last, hist>>

\* the state of the components that only their own actions change
Periphery == <<storage, debounced, local, popup>>


\* ------------------------------------------------------------------------
\* Helpers on insertion-ordered sets (JavaScript Set)
\* ------------------------------------------------------------------------

Has(seq, k) == \E i \in 1..Len(seq) : seq[i] = k

Remove(seq, k) == SelectSeq(seq, LAMBDA x : x # k)

\* ------------------------------------------------------------------------
\* History bookkeeping (not program state)
\* ------------------------------------------------------------------------

\* counters saturate: 0, 1, "2 or more"
Inc(n) == IF n < 2 THEN n + 1 ELSE 2

\* for the watched key:
\*   acts, inits   activateFeature invocations / init calls since the last
\*                 deactivateFeature invocation on the key
\*   first         what the first of those activateFeature invocations did
\*   deacts, destroys   deactivateFeature invocations / destroy calls since
\*                 the last activateFeature invocation on the key
\*   wasActive     the key was active at the first of those invocations
\*   life          the most recent init/destroy call on the module: "none",
\*                 "init" (it returned), "initThrew" or "destroy"
HistInit == [acts |-> 0, inits |-> 0, first |-> "none",
             deacts |-> 0, destroys |-> 0, wasActive |-> FALSE,
             life |-> "none"]

NoteActivate(c, key, outcome) ==
  IF key # watch THEN c
  ELSE [c EXCEPT !.hist =
          [@ EXCEPT !.acts = Inc(@),
                    !.first = IF c.hist.acts = 0 THEN outcome ELSE @,
                    !.deacts = 0, !.destroys = 0, !.wasActive = FALSE]]

NoteDeactivate(c, key) ==
  IF key # watch THEN c
  ELSE [c EXCEPT !.hist =
          [@ EXCEPT !.deacts = Inc(@),
                    !.wasActive = IF c.hist.deacts = 0
                                  THEN Has(c.active, key) ELSE @,
                    !.acts = 0, !.inits = 0, !.first = "none"]]

\* one call of a module function: a call on the watched module is appended
\* to the calls of the turn; of a throwing call on another module the name
\* of the function is noted
Call(c, ev, key, id, el, threw) ==
  IF key = watch
  THEN [c EXCEPT !.calls = Append(@, [ev |-> ev, id |-> id, el |-> el,
                                      threw |-> threw])]
  ELSE [c EXCEPT !.otherThrew = IF threw THEN @ \cup {ev} ELSE @]

NoteInit(c, key, threw) ==
  LET c1 == Call(c, "init", key, NoId, NoEl, threw)
  IN  IF key # watch THEN c1
      ELSE [c1 EXCEPT !.hist =
              [@ EXCEPT !.inits = Inc(@),
                        !.life = IF threw THEN "initThrew" ELSE "init"]]

NoteDestroy(c, key, threw) ==
  LET c1 == Call(c, "destroy", key, NoId, NoEl, threw)
  IN  IF key # watch THEN c1
      ELSE [c1 EXCEPT !.hist =
              [@ EXCEPT !.destroys = Inc(@), !.life = "destroy"]]

\* the state a turn works on: the active set, the calls made so far on the
\* watched module, whether a call on another module threw, the counters,
\* and whether an exception is propagating out of the code run so far
Turn == [active |-> activeFeatures, calls |-> <<>>, otherThrew |-> {},
         hist |-> hist, threw |-> FALSE]

\* ------------------------------------------------------------------------
\* Lifecycle: activateFeature, deactivateFeature, syncFeatures
\* ------------------------------------------------------------------------

\* activateFeature without its first line (no activeFeatures.has check)
activateFeature_NoGuard(c, key, throws) ==
  LET c0 == NoteActivate(c, key, IF throws THEN "threw" ELSE "ok")
  IN  IF key \notin features THEN c0
      ELSE IF throws THEN NoteInit(c0, key, TRUE)
      ELSE [NoteInit(c0, key, FALSE)
              EXCEPT !.active = Append(Remove(@, key), key)]

\* activateFeature without try/catch: a throwing init propagates
activateFeature_NoCatch(c, key, throws) ==
  LET c0 == NoteActivate(c, key, IF throws THEN "threw" ELSE "ok")
  IN  IF Has(c.active, key) THEN c0
      ELSE IF key \notin features THEN c0
      ELSE IF throws THEN [NoteInit(c0, key, TRUE) EXCEPT !.threw = TRUE]
      ELSE [NoteInit(c0, key, FALSE) EXCEPT !.active = Append(@, key)]

\* activateFeature that adds the key before calling init
activateFeature_AddsFirst(c, key, throws) ==
  LET c0 == NoteActivate(c, key, IF throws THEN "threw" ELSE "ok")
  IN  IF Has(c.active, key) THEN c0
      ELSE IF key \notin features THEN c0
      ELSE [NoteInit(c0, key, throws) EXCEPT !.active = Append(@, key)]

\* activateFeature without the lookup of the module in the registry
activateFeature_NoLookup(c, key, throws) ==
  LET c0 == NoteActivate(c, key, IF throws THEN "threw" ELSE "ok")
  IN  IF Has(c.active, key) THEN c0
      ELSE IF key \in features /\ throws THEN NoteInit(c0, key, TRUE)
      ELSE [(IF key \in features THEN NoteInit(c0, key, FALSE) ELSE c0)
              EXCEPT !.active = Append(@, key)]

\* activateFeature whose catch block calls module.destroy() to clean up
\* after an init that threw
activateFeature_CleansUp(c, key, throws) ==
  LET outcome == IF Has(c.active, key) THEN "active"
                 ELSE IF key \notin features THEN "unregistered"
                 ELSE IF throws THEN "threw" ELSE "ok"
      c0 == NoteActivate(c, key, outcome)
  IN  IF Has(c.active, key) THEN c0
      ELSE IF key \notin features THEN c0
      ELSE IF throws
        THEN NoteDestroy(NoteInit(c0, key, TRUE), key, FALSE)
      ELSE [NoteInit(c0, key, FALSE) EXCEPT !.active = Append(@, key)]

\* throws: whether module.init throws in this call
activateFeature(c, key, throws) ==
  LET outcome == IF Has(c.active, key) THEN "active"
                 ELSE IF key \notin features THEN "unregistered"
                 ELSE IF throws THEN "threw" ELSE "ok"
      c0 == NoteActivate(c, key, outcome)
  IN  IF Has(c.active, key) THEN c0
      ELSE IF key \notin features THEN c0
      ELSE IF throws THEN NoteInit(c0, key, TRUE)
      ELSE [NoteInit(c0, key, FALSE) EXCEPT !.active = Append(@, key)]

\* deactivateFeature without its first line (no activeFeatures.has check)
deactivateFeature_NoGuard(c, key, throws) ==
  LET c0 == NoteDeactivate(c, key)
      c1 == IF key \in features THEN NoteDestroy(c0, key, throws) ELSE c0
  IN  [c1 EXCEPT !.active = Remove(@, key)]

\* deactivateFeature whose delete is inside the try block: skipped when
\* destroy throws
deactivateFeature_StuckOnThrow(c, key, throws) ==
  LET c0 == NoteDeactivate(c, key)
  IN  IF ~Has(c.active, key) THEN c0
      ELSE IF key \in features /\ throws THEN NoteDestroy(c0, key, TRUE)
      ELSE LET c1 == IF key \in features
                     THEN NoteDestroy(c0, key, FALSE) ELSE c0
           IN  [c1 EXCEPT !.active = Remove(@, key)]

\* deactivateFeature that forgets to call destroy
deactivateFeature_NoDestroy(c, key, throws) ==
  LET c0 == NoteDeactivate(c, key)
  IN  IF ~Has(c.active, key) THEN c0
      ELSE [c0 EXCEPT !.active = Remove(@, key)]

\* deactivateFeature that empties the active set (activeFeatures.clear())
deactivateFeature_Clears(c, key, throws) ==
  LET c0 == NoteDeactivate(c, key)
  IN  IF ~Has(c.active, key) THEN c0
      ELSE LET c1 == IF key \in features
                     THEN NoteDestroy(c0, key, throws) ELSE c0
           IN  [c1 EXCEPT !.active = <<>>]

\* throws: whether module.destroy throws in this call
deactivateFeature(c, key, throws) ==
  LET c0 == NoteDeactivate(c, key)
  IN  IF ~Has(c.active, key) THEN c0
      ELSE LET c1 == IF key \in features
                     THEN NoteDestroy(c0, key, throws) ELSE c0
           IN  [c1 EXCEPT !.active = Remove(@, key)]

\* the loop of syncFeatures ending one key early
RECURSIVE syncFrom_SkipsLast(_, _, _, _)
syncFrom_SkipsLast(c, i, snap, thr) ==
  IF i >= Len(FeatureKeys) \/ c.threw THEN c
  ELSE LET key == FeatureKeys[i]
           c1 == IF snap[key]
                 THEN activateFeature(c, key, key \in thr)
                 ELSE deactivateFeature(c, key, key \in thr)
       IN  syncFrom_SkipsLast(c1, i + 1, snap, thr)

\* the for loop of syncFeatures from the i-th key on; snap is the
\* configuration read, thr the keys whose module call throws in this turn
RECURSIVE syncFrom(_, _, _, _)
syncFrom(c, i, snap, thr) ==
  IF i > Len(FeatureKeys) \/ c.threw THEN c
  ELSE LET key == FeatureKeys[i]
           c1 == IF snap[key]
                 THEN activateFeature(c, key, key \in thr)
                 ELSE deactivateFeature(c, key, key \in thr)
       IN  syncFrom(c1, i + 1, snap, thr)

\* sidebarPinningEnabled after setSidebarPinningEnabled(enabled)
setSidebarPinningEnabled(enabled) == enabled

\* ------------------------------------------------------------------------
\* Timers
\* ------------------------------------------------------------------------

\* null timer id
NoTimer == 0

\* ids of timers: an id is reused only when no timer and no variable holds it
TimerIds == 1..(MaxTimers + 2)

PendingIds(ts) == {t.id : t \in ts}

NewTimerId(ts, refs) ==
  LET free == TimerIds \ (PendingIds(ts) \cup refs)
  IN  CHOOSE i \in free : \A j \in free : i <= j

\* clearTimeout(id)
clearTimeout(ts, id) == {t \in ts : t.id # id}

MESSAGE_OBSERVER_MAX_RETRIES == 6

\* ------------------------------------------------------------------------
\* Message observer
\* ------------------------------------------------------------------------

\* the observer state a turn works on
Dom == [observers |-> observers, connected |-> connected, timers |-> timers,
        debounceTimer |-> debounceTimer,
        messageObserverRetryTimer |-> messageObserverRetryTimer,
        acquisition |-> acquisition]

\* DOM.unobserve('messages'): the observer registered under the name is
\* disconnected and the entry deleted
unobserve(d) ==
  IF d.observers # NoEl
  THEN [d EXCEPT !.connected = @ (-) SetToBag({d.observers}),
                 !.observers = NoEl]
  ELSE d

\* DOM.observe that installs the new observer without DOM.unobserve
observe_NoUnobserve(d, target) ==
  [d EXCEPT !.connected = @ (+) SetToBag({target}),
            !.observers = target,
            !.debounceTimer = NoTimer]

\* DOM.observe('messages', target, onMutation, ...): the previous observer
\* under the name is disconnected, the new one has a fresh debounce closure
observe(d, target) ==
  LET d0 == unobserve(d)
  IN  [d0 EXCEPT !.connected = @ (+) SetToBag({target}),
                 !.observers = target,
                 !.debounceTimer = NoTimer]

\* the delay without its ceiling
retryDelay_NoCap(retryCount) == 1000 * 2 ^ retryCount

\* delay of the retry scheduled by setupMessageObserver(retryCount)
retryDelay(retryCount) ==
  LET d == 1000 * 2 ^ retryCount
  IN  IF d < 10000 THEN d ELSE 10000

setupMessageObserver(d, retryCount) ==
  IF container = NoEl
  THEN IF retryCount >= MESSAGE_OBSERVER_MAX_RETRIES
       THEN [d EXCEPT !.acquisition = "gaveUp"]
       ELSE LET id == NewTimerId(d.timers, {d.debounceTimer,
                                            d.messageObserverRetryTimer})
            IN  [d EXCEPT !.timers = @ \cup {[id |-> id,
                                              fn |-> "setupMessageObserver",
                                              n |-> retryCount + 1,
                                              el |-> NoEl,
                                              delay |->
                                                retryDelay(retryCount)]},
                          !.messageObserverRetryTimer = id,
                          !.acquisition = "retrying"]
  ELSE LET d1 == IF d.messageObserverRetryTimer # NoTimer
                 THEN [d EXCEPT !.timers = clearTimeout(@,
                                             d.messageObserverRetryTimer),
                                !.messageObserverRetryTimer = NoTimer]
                 ELSE d
       IN  [observe(d1, container) EXCEPT !.acquisition = "installed"]

\* the loop of a lifecycle hook running over the registry instead of
\* activeFeatures
RECURSIVE notifyFrom_Registered(_, _, _, _, _, _, _)
notifyFrom_Registered(c, i, ev, impl, id, el, thr) ==
  IF i > Len(FeatureKeys) \/ c.threw THEN c
  ELSE LET key == FeatureKeys[i]
           c1 == IF key \in features /\ key \in impl
                 THEN [Call(c, ev, key, id, el, key \in thr)
                         EXCEPT !.threw = key \in thr]
                 ELSE c
       IN  notifyFrom_Registered(c1, i + 1, ev, impl, id, el, thr)

\* the loop of a lifecycle hook over activeFeatures (insertion order) from
\* position i on: a throwing hook ends the loop, the exception propagates
RECURSIVE notifyFrom(_, _, _, _, _, _, _)
notifyFrom(c, i, ev, impl, id, el, thr) ==
  IF i > Len(c.active) \/ c.threw THEN c
  ELSE LET key == c.active[i]
           c1 == IF key \in features /\ key \in impl
                 THEN [Call(c, ev, key, id, el, key \in thr)
                         EXCEPT !.threw = key \in thr]
                 ELSE c
       IN  notifyFrom(c1, i + 1, ev, impl, id, el, thr)

\* ------------------------------------------------------------------------
\* The Timeline module
\* ------------------------------------------------------------------------

\* /^\/chat\/[a-f0-9-]+$/i.test(pathname)
isChatPage(p) ==
  /\ Len(p) = 2
  /\ LowerSeg(p[1]) = Chat
  /\ Len(p[2]) > 0
  /\ HexPrefixLen(p[2]) = Len(p[2])

\* the module after its file has been evaluated: createInitialState(), no
\* node in the page, nothing pending.  alive and renderedBy are history:
\* whether init has returned with no destroy since, and the function that
\* made the last renderTimeline() call
TimelineLoaded ==
  [conversationId |-> NoId, panel |-> FALSE, debounce |-> FALSE,
   navTimers |-> {}, loads |-> 0, alive |-> FALSE, renderedBy |-> "none"]

\* renderTimeline() called by function by on path p; messages: whether
\* DOM.getChatMessages() finds a message
renderTimeline(m, p, messages, by) ==
  [m EXCEPT !.panel = isChatPage(p) /\ messages, !.renderedBy = by]

\* removeTimeline()
removeTimeline(m) == [m EXCEPT !.panel = FALSE]

\* ------------------------------------------------------------------------
\* MessageService.ts: values, promises, the listener and send
\* ------------------------------------------------------------------------

MessageTypes == {"GET_SETTINGS", "UPDATE_SETTINGS", "SETTINGS_CHANGED",
                 "GET_TAB_INFO", "FEATURE_TOGGLE"}

\* a raw message without a type
NoType == "none"

Absent == "absent"

\* the value undefined, and ExtensionResponse values
Undefined == [kind |-> "undefined", success |-> FALSE, data |-> Absent,
              error |-> Absent]

Response(success, data, error) ==
  [kind |-> "response", success |-> success, data |-> data, error |-> error]

Responses == {Response(TRUE, "settings", Absent),
              Response(FALSE, Absent, "denied")}

\* thrown values: Error objects and plain strings
NoReason == [isError |-> FALSE, message |-> Absent]

Thrown == {[isError |-> TRUE, message |-> "boom"],
           [isError |-> FALSE, message |-> "quota"]}

ConnectionError ==
  [isError |-> TRUE,
   message |-> "Could not establish connection. Receiving end does not exist."]

\* String(err)
String(err) == IF err.isError THEN "Error: " \o err.message ELSE err.message

\* promises
Pending == [state |-> "pending", value |-> Undefined, reason |-> NoReason]

Fulfilled(v) == [state |-> "fulfilled", value |-> v, reason |-> NoReason]

Rejected(e) == [state |-> "rejected", value |-> Undefined, reason |-> e]

\* the listener returned undefined: it sends no reply
NoReply == [state |-> "none", value |-> Undefined, reason |-> NoReason]

\* what a registered handler does when it is invoked
Behaviours ==
  [kind : {"returns"}, value : Responses \cup {Undefined}, reason : {NoReason}]
  \cup [kind : {"throws"}, value : {Undefined}, reason : Thrown]
  \cup [kind : {"promise"}, value : {Undefined}, reason : {NoReason}]

\* result.catch((err) => ({success: false, error: String(err)}))
catch(p) ==
  IF p.state = "rejected"
    THEN Fulfilled(Response(FALSE, Absent, String(p.reason)))
    ELSE p

\* handlers: Map<MessageType, MessageHandler>, a handler being known by
\* its identity
HandlerIds == {"h1", "h2"}

\* Map.get of a key without an entry
NoHandler == "none"

\* on(type, handler) that keeps the handler already registered for the type
on_KeepsFirst(hs, type, handler) ==
  IF hs[type] # NoHandler THEN hs ELSE [hs EXCEPT ![type] = handler]

\* on(type, handler): this.handlers.set(type, handler)
on(hs, type, handler) == [hs EXCEPT ![type] = handler]

\* off(type): this.handlers.delete(type)
off(hs, type) == [hs EXCEPT ![type] = NoHandler]

\* the handlers the onMessage listener calls for a message of the type, in
\* call order
dispatch(hs, type) ==
  IF type = NoType THEN <<>>
  ELSE IF hs[type] = NoHandler THEN <<>>
  ELSE <<hs[type]>>

\* the onMessage listener installed by listen(), with the handlers map hs,
\* on a message of the given type whose handler behaves as b
listener(hs, type, b) ==
  IF type = NoType THEN NoReply
  ELSE IF hs[type] = NoHandler THEN NoReply
  ELSE IF b.kind = "throws"
    THEN Fulfilled(Response(FALSE, Absent, String(b.reason)))
  ELSE IF b.kind = "promise" THEN catch(Pending)
  ELSE Fulfilled(b.value)

\* send without its try/catch
send_NoCatch(t) ==
  IF t.state = "rejected"
    THEN Rejected(t.reason)
    ELSE Fulfilled(IF t.value = Undefined
                     THEN Response(TRUE, Absent, Absent) ELSE t.value)

\* send, once the promise t of browser.runtime.sendMessage has settled
send(t) ==
  IF t.state = "rejected"
    THEN Fulfilled(Response(FALSE, Absent, String(t.reason)))
    ELSE Fulfilled(IF t.value = Undefined
                     THEN Response(TRUE, Absent, Absent) ELSE t.value)

\* history of one send: what the counterpart did with the message, the
\* handlers it called, and whether the last on/off call before the delivery
\* was an on for the message's type that replaced another handler
NoDid == [kind |-> "none", value |-> Undefined, reason |-> NoReason,
          by |-> <<>>, replaced |-> FALSE]

\* history of the registrations: no on/off call yet
NoOp == [op |-> "none", type |-> NoType, over |-> NoHandler]

NoCall == [pc |-> "idle", type |-> NoType, did |-> NoDid,
           transport |-> Pending, outcome |-> Pending]

\* the service after construction.  registered and lastOp are history: for
\* each type the handler of the most recent on() with no off() since, and
\* the most recent on/off call with the handler the map held before it
MessagingLoaded ==
  [handlers |-> [t \in MessageTypes |-> NoHandler], listening |-> FALSE,
   call |-> NoCall,
   registered |-> [t \in MessageTypes |-> NoHandler], lastOp |-> NoOp]

\* ------------------------------------------------------------------------
\* The history hooks: setupNavigationListeners and the wrappers it installs
\* ------------------------------------------------------------------------

HistoryFns == {"pushState", "replaceState"}

\* history of the last call of a history function by the page: the
\* function, the number of wrappers around the original at the call, what
\* ran inside the call in order, the result of the original and the value
\* the call returned
NoHistoryCall == [fn |-> "none", layers |-> 0, events |-> <<>>,
                  result |-> "none", returned |-> "none"]

\* before setupNavigationListeners: the history functions are the
\* originals, no listener is installed.  pushState and replaceState count
\* the wrappers around the original, listeners the popstate/hashchange
\* listener pairs, runs (history) the setupNavigationListeners calls
HooksLoaded == [navigationListenerReady |-> FALSE, pushState |-> 0,
                replaceState |-> 0, listeners |-> 0, runs |-> 0,
                call |-> NoHistoryCall]

\* setupNavigationListeners(); hookThrows: whether the assignment of the
\* history functions throws
setupNavigationListeners(h, hookThrows) ==
  LET h0 == [h EXCEPT !.runs = Inc(@)]
  IN  IF h.navigationListenerReady THEN h0
      ELSE [h0 EXCEPT !.pushState = IF hookThrows THEN @ ELSE @ + 1,
                      !.replaceState = IF hookThrows THEN @ ELSE @ + 1,
                      !.listeners = @ + 1,
                      !.navigationListenerReady = TRUE]

\* a wrapper that calls checkNavigation itself after the wrapped function
historyWrapper_Sync(inner) ==
  [inner EXCEPT !.events = Append(@, "checkNavigation")]

\* one wrapper around the function whose call runs as inner:
\*   const result = original(...args); setTimeout(checkNavigation, 0);
\*   return result
historyWrapper(inner) ==
  [inner EXCEPT !.events = Append(@, "setTimeout"),
                !.returned = inner.returned]

\* a call of a history function with the given number of wrappers around
\* the original, which returns result
RECURSIVE historyCall(_, _, _)
historyCall(fn, layers, result) ==
  IF layers = 0
  THEN [fn |-> fn, layers |-> 0, events |-> <<"original">>,
        result |-> result, returned |-> result]
  ELSE [historyWrapper(historyCall(fn, layers - 1, result))
          EXCEPT !.layers = layers]

\* ts after the setTimeout(checkNavigation, 0) calls among the events
RECURSIVE setCheckTimers(_, _, _, _)
setCheckTimers(ts, refs, events, i) ==
  IF i > Len(events) THEN ts
  ELSE IF events[i] = "setTimeout"
       THEN setCheckTimers(ts \cup {[id |-> NewTimerId(ts, refs),
                                     fn |-> "checkNavigation", n |-> 0,
                                     el |-> NoEl, delay |-> 0]},
                           refs, events, i + 1)
       ELSE setCheckTimers(ts, refs, events, i + 1)

\* ------------------------------------------------------------------------
\* The background script
\* ------------------------------------------------------------------------

\* the worker after setupHandlers(): no handler in flight, nothing sent.
\* handlers is the bag of its message handlers suspended on an await, tab
\* the messages sent to the tab's content script in sending order
BackgroundLoaded == [handlers |-> EmptyBag, tab |-> <<>>]

\* ------------------------------------------------------------------------
\* Initial state: the module has been evaluated (the registerFeature calls
\* at its end, then main() up to its first await: the message handlers are
\* installed and main is suspended in waitForElement).  The page has
\* rendered its main content and the storage holds some configuration.
\* ------------------------------------------------------------------------

\* the stored flags of a fresh installation
DEFAULT_FEATURE_TOGGLES == [k \in Keys |-> FALSE]

NoSnap == DEFAULT_FEATURE_TOGGLES

\* a turn that called no module
NoTurn == [op |-> "other", key |-> "-", flag |-> FALSE, wasActive |-> FALSE,
           detected |-> FALSE, calls |-> <<>>, otherThrew |-> {},
           escaped |-> FALSE]

\* ------------------------------------------------------------------------
\* The value stored under STORAGE_KEYS.SETTINGS.  Storage holds JSON, so
\* the value need not have the shape of VoyagerSettings: the features map
\* may be missing, a feature may be missing or hold something that is not
\* a boolean, keys of an older version may remain, and schemaVersion may be
\* older or newer than the current one.  Feature values are written as
\* text: "true" and "false" are the booleans, "1" is a value of another
\* type, "absent" is a key the map does not have.
\* ------------------------------------------------------------------------

CURRENT_SCHEMA_VERSION == 1

\* the keys a stored features map may have: the known ones and a stale one
Names == Keys \cup {"legacy"}

Values == {"true", "false", "1", "absent"}

text(b) == IF b THEN "true" ELSE "false"

\* DEFAULT_SETTINGS
DEFAULT_SETTINGS ==
  [present |-> TRUE, hasFeatures |-> TRUE, ordered |-> TRUE,
   features |-> [n \in Names |-> IF n \in Keys
                                   THEN text(DEFAULT_FEATURE_TOGGLES[n])
                                   ELSE "absent"],
   schemaVersion |-> CURRENT_SCHEMA_VERSION]

\* nothing is stored under the key
NoRaw ==
  [present |-> FALSE, hasFeatures |-> FALSE, ordered |-> TRUE,
   features |-> [n \in Names |-> "absent"], schemaVersion |-> 0]

\* what may be stored; ordered says the keys are in the order of
\* DEFAULT_SETTINGS, which JSON.stringify shows
RawValues ==
  {NoRaw} \cup
  {[present |-> TRUE, hasFeatures |-> (f # NoRaw.features), ordered |-> o,
    features |-> f, schemaVersion |-> v] :
      f \in [Names -> Values], o \in BOOLEAN,
      v \in 0..(CURRENT_SCHEMA_VERSION + 1)}

\* getLocal(key, fallback): the stored value, the fallback when nothing is
\* stored or the read throws
getLocal(raw, readFails) ==
  IF readFails \/ ~raw.present THEN DEFAULT_SETTINGS ELSE raw

\* migrateIfNeeded(settings): value is what it returns, wrote says it
\* called setSettings(migrated); the migrations registry is empty
migrateIfNeeded(s) ==
  IF s.schemaVersion >= CURRENT_SCHEMA_VERSION
    THEN [value |-> s, wrote |-> FALSE]
    ELSE [value |-> [s EXCEPT !.hasFeatures = TRUE,
                              !.features = IF s.hasFeatures
                                             THEN s.features
                                             ELSE DEFAULT_SETTINGS.features,
                              !.schemaVersion = CURRENT_SCHEMA_VERSION],
          wrote |-> TRUE]

\* normalizeSettings(settings) with the spread of the stored features in
\* place of the loop over the known keys
normalizeSettings_Spread(s) ==
  [present |-> TRUE, hasFeatures |-> TRUE, ordered |-> TRUE,
   features |-> [n \in Names |->
                   IF s.hasFeatures /\ s.features[n] # "absent"
                     THEN s.features[n]
                     ELSE DEFAULT_SETTINGS.features[n]],
   schemaVersion |-> CURRENT_SCHEMA_VERSION]

\* normalizeSettings(settings)
normalizeSettings(s) ==
  [present |-> TRUE, hasFeatures |-> TRUE, ordered |-> TRUE,
   features |-> [n \in Names |->
                   IF n \in Keys
                     THEN IF s.hasFeatures
                             /\ s.features[n] \in {"true", "false"}
                            THEN s.features[n]
                            ELSE DEFAULT_SETTINGS.features[n]
                     ELSE "absent"],
   schemaVersion |-> CURRENT_SCHEMA_VERSION]

\* settingsEqual(a, b): JSON.stringify(a) === JSON.stringify(b)
settingsEqual(a, b) == a = b

\* no getSettings call yet
NoGet == [pc |-> "idle", from |-> NoRaw, readFailed |-> FALSE,
          read |-> NoRaw, value |-> NoRaw, writes |-> 0]

\* the state with the modules of the keys in registered in the registry
BootFrom(registered, raw, produced) ==
  /\ features = registered
  /\ activeFeatures = <<>>
  /\ path = PathNew
  /\ lastPath = path
  /\ sidebarPinningEnabled = FALSE
  /\ main = [pc |-> "waitForElement", snap |-> NoSnap, triggers |-> {}]
  /\ handlers = EmptyBag
  /\ settings \in [Keys -> BOOLEAN]
  /\ container = "main1"
  /\ observers = NoEl
  /\ connected = EmptyBag
  /\ timers = {}
  /\ debounceTimer = NoTimer
  /\ messageObserverRetryTimer = NoTimer
  /\ acquisition = "none"
  /\ timeline = TimelineLoaded
  /\ messaging = MessagingLoaded
  /\ hooks = HooksLoaded
  /\ background = BackgroundLoaded
  /\ storage = [ops |-> <<>>, model |-> produced]
  /\ debounced = [now |-> 0, timer |-> NoTimer, pending |-> {},
                  ncalls |-> 0, bursts |-> 0, fired |-> 0,
                  lastCall |-> [at |-> 0, args |-> "none"],
                  lastFire |-> [at |-> 0, args |-> "none", callAt |-> 0,
                                callArgs |-> "none"]]
  /\ local = [raw |-> raw, call |-> NoGet]
  /\ popup = [loading |-> TRUE, settings |-> DEFAULT_FEATURE_TOGGLES,
              settingsRef |-> DEFAULT_FEATURE_TOGGLES, ops |-> <<>>]
  /\ watch \in Keys
  /\ last = NoTurn
  /\ hist = HistInit

\* the same, with nothing stored under the settings key and no settings
\* update made
Boot(registered) == BootFrom(registered, NoRaw, NoSnap)

\* every module is registered (the registerFeature calls at the end of the
\* file)
Init == Boot(Keys)

\* history variables of a turn that ran the lifecycle/hook code c:
\* op names the function run, key its key argument, flag the enabled flag
\* it applied to the watched key
RecordTurn(opname, key, flag, detected, c) ==
  /\ last' = [op |-> opname, key |-> key, flag |-> flag,
              wasActive |-> Has(activeFeatures, watch),
              detected |-> detected, calls |-> c.calls,
              otherThrew |-> c.otherThrew, escaped |-> c.threw]
  /\ hist' = c.hist
  /\ watch' = watch
  /\ UNCHANGED <<timeline, messaging>>
  /\ UNCHANGED Periphery

\* the same for a turn that leaves the history hooks and the messages in
\* flight alone
Record(opname, key, flag, detected, c) ==
  /\ RecordTurn(opname, key, flag, detected, c)
  /\ UNCHANGED <<hooks, background>>

\* history variables of a turn that called no module
QuietTurn == /\ last' = NoTurn
             /\ UNCHANGED <<hist, watch, timeline, messaging>>
             /\ UNCHANGED Periphery

\* the same for a turn that leaves the history hooks and the messages in
\* flight alone
Quiet == /\ QuietTurn
         /\ UNCHANGED <<hooks, background>>

DomUnchanged == UNCHANGED <<observers, connected, timers, debounceTimer,
                            messageObserverRetryTimer, acquisition>>

SetDom(d) ==
  /\ observers' = d.observers
  /\ connected' = d.connected
  /\ timers' = d.timers
  /\ debounceTimer' = d.debounceTimer
  /\ messageObserverRetryTimer' = d.messageObserverRetryTimer
  /\ acquisition' = d.acquisition

\* the callers of checkNavigation without the setInterval of main
navigationTriggers_NoSafetyNet(hookThrows) ==
  (IF hookThrows THEN {"poll"} ELSE {"pushState", "replaceState"})
    \cup {"popstate", "hashchange"}

\* the callers of checkNavigation after setupNavigationListeners() and the
\* setInterval of main: the hooked history functions, or the poll set in
\* the catch block when hooking them throws; the popstate and hashchange
\* listeners; the poll of main
navigationTriggers(hookThrows) ==
  (IF hookThrows THEN {"poll"} ELSE {"pushState", "replaceState"})
    \cup {"popstate", "hashchange"} \cup {"poll"}

\* ------------------------------------------------------------------------
\* Actions: main
\* ------------------------------------------------------------------------

\* waitForElement resolves: with the element, syncFeatures starts and
\* suspends on Storage.getSettings; with null after the timeout, main returns
MainWaitResolved ==
  /\ main.pc = "waitForElement"
  /\ main' = [main EXCEPT !.pc = IF container # NoEl THEN "getSettings"
                                 ELSE "inert"]
  /\ Quiet
  /\ UNCHANGED <<features, activeFeatures, lastPath, sidebarPinningEnabled,
                 handlers, settings, path, container>>
  /\ DomUnchanged

\* the storage read of main's syncFeatures
MainReadSettings ==
  /\ main.pc = "getSettings"
  /\ main' = [main EXCEPT !.pc = "syncFeatures", !.snap = settings]
  /\ Quiet
  /\ UNCHANGED <<features, activeFeatures, lastPath, sidebarPinningEnabled,
                 handlers, settings, path, container>>
  /\ DomUnchanged

\* main resumes: the loop of syncFeatures, setSidebarPinningEnabled, then
\* setupMessageObserver(), setupNavigationListeners(), setInterval;
\* hookThrows: whether the assignment of the history functions throws;
\* thrs: the sets of keys whose module call may throw in this turn
MainResumeOn(hookThrows, thrs) ==
  /\ main.pc = "syncFeatures"
  /\ \E thr \in thrs :
       LET c == syncFrom(Turn, 1, main.snap, thr)
       IN  /\ activeFeatures' = c.active
           /\ sidebarPinningEnabled' =
                IF c.threw THEN sidebarPinningEnabled
                ELSE setSidebarPinningEnabled(main.snap["folders"])
           /\ main' = [pc |-> IF c.threw THEN "failed" ELSE "ready",
                       snap |-> NoSnap,
                       triggers |-> IF c.threw THEN {}
                                    ELSE navigationTriggers(hookThrows)]
           /\ IF c.threw THEN DomUnchanged
              ELSE SetDom(setupMessageObserver(Dom, 0))
           /\ hooks' = IF c.threw THEN hooks
                       ELSE setupNavigationListeners(hooks, hookThrows)
           /\ RecordTurn("syncFeatures", "-", main.snap[watch], FALSE, c)
  /\ UNCHANGED <<features, lastPath, handlers, settings, path, container,
                 background>>

MainResumeWith(hookThrows) == MainResumeOn(hookThrows, SUBSET Keys)

\* main resumes and the history functions are hooked
MainResume == MainResumeWith(FALSE)

\* main resumes and the assignment of the history functions throws
MainResumeHookFails == MainResumeWith(TRUE)

\* ------------------------------------------------------------------------
\* Actions: message handlers
\* ------------------------------------------------------------------------

\* a suspended handler: kind "sync" (SETTINGS_CHANGED) or "toggle"
\* (FEATURE_TOGGLE with enabled = true); pc is "getSettings" until the
\* storage read has happened, then "resume"
Handler(kind, key, pc, snap) ==
  [kind |-> kind, key |-> key, pc |-> pc, snap |-> snap]

Suspend(h) == handlers (+) SetToBag({h})

Finish(h) == handlers (-) SetToBag({h})

\* the dispatch turn of a handler that suspends on its first await
Dispatch(h) ==
  /\ BagCardinality(handlers) < MaxInFlight
  /\ handlers' = Suspend(h)
  /\ QuietTurn
  /\ UNCHANGED <<features, activeFeatures, lastPath, sidebarPinningEnabled,
                 main, settings, path, container, hooks>>
  /\ DomUnchanged

\* a SETTINGS_CHANGED message is dispatched: syncFeatures starts and
\* suspends on Storage.getSettings
ReceiveSettingsChanged ==
  /\ Dispatch(Handler("sync", "-", "getSettings", NoSnap))
  /\ UNCHANGED background

\* the storage read of a suspended SETTINGS_CHANGED handler
HandlerReadSettings(h) ==
  /\ BagIn(h, handlers)
  /\ h.kind = "sync"
  /\ h.pc = "getSettings"
  /\ handlers' = Finish(h) (+) SetToBag({Handler("sync", "-", "resume",
                                                 settings)})
  /\ Quiet
  /\ UNCHANGED <<features, activeFeatures, lastPath, sidebarPinningEnabled,
                 main, settings, path, container>>
  /\ DomUnchanged

\* the SETTINGS_CHANGED handler resumes: loop, setSidebarPinningEnabled;
\* thrs: the sets of keys whose module call may throw in this turn
SyncResumeOn(h, thrs) ==
  /\ BagIn(h, handlers)
  /\ h.kind = "sync"
  /\ h.pc = "resume"
  /\ \E thr \in thrs :
       LET c == syncFrom(Turn, 1, h.snap, thr)
       IN  /\ activeFeatures' = c.active
           /\ sidebarPinningEnabled' =
                IF c.threw THEN sidebarPinningEnabled
                ELSE setSidebarPinningEnabled(h.snap["folders"])
           /\ Record("syncFeatures", "-", h.snap[watch], FALSE, c)
  /\ handlers' = Finish(h)
  /\ UNCHANGED <<features, lastPath, main, settings, path, container>>
  /\ DomUnchanged

SyncResume(h) == SyncResumeOn(h, SUBSET Keys)

\* a FEATURE_TOGGLE message with enabled = true is dispatched: the handler
\* suspends on Storage.getSettings
ReceiveToggleOn(key) ==
  /\ Dispatch(Handler("toggle", key, "getSettings", NoSnap))
  /\ UNCHANGED background

\* the FEATURE_TOGGLE handler resumes with the settings read (which it only
\* passes on to init): activateFeature, then setSidebarPinningEnabled(true)
\* for 'folders'; outcomes: whether init may return, throw
ToggleOnResumeOn(h, outcomes) ==
  /\ BagIn(h, handlers)
  /\ h.kind = "toggle"
  /\ \E throws \in outcomes :
       LET c == activateFeature(Turn, h.key, throws)
       IN  /\ activeFeatures' = c.active
           /\ sidebarPinningEnabled' =
                IF h.key = "folders" /\ ~c.threw
                THEN setSidebarPinningEnabled(TRUE)
                ELSE sidebarPinningEnabled
           /\ Record("activateFeature", h.key, TRUE, FALSE, c)
  /\ handlers' = Finish(h)
  /\ UNCHANGED <<features, lastPath, main, settings, path, container>>
  /\ DomUnchanged

ToggleOnResume(h) == ToggleOnResumeOn(h, BOOLEAN)

\* a FEATURE_TOGGLE message with enabled = false: deactivateFeature runs in
\* the dispatch turn, then setSidebarPinningEnabled(false) for 'folders'
ToggleOffTurn(key) ==
  /\ \E throws \in BOOLEAN :
       LET c == deactivateFeature(Turn, key, throws)
       IN  /\ activeFeatures' = c.active
           /\ sidebarPinningEnabled' =
                IF key = "folders" /\ ~c.threw
                THEN setSidebarPinningEnabled(FALSE)
                ELSE sidebarPinningEnabled
           /\ RecordTurn("deactivateFeature", key, FALSE, FALSE, c)
  /\ UNCHANGED <<features, lastPath, main, handlers, settings, path,
                 container, hooks>>
  /\ DomUnchanged

ToggleOff(key) ==
  /\ ToggleOffTurn(key)
  /\ UNCHANGED background

\* ------------------------------------------------------------------------
\* Actions: the page and the storage
\* ------------------------------------------------------------------------

\* the stored configuration changes (written by the background script)
StorageWrite(key) ==
  /\ settings' = [settings EXCEPT ![key] = ~@]
  /\ Quiet
  /\ UNCHANGED <<features, activeFeatures, lastPath, sidebarPinningEnabled,
                 main, handlers, path, container>>
  /\ DomUnchanged

\* the page changes the URL path (pushState, replaceState, back/forward)
Navigate(p) ==
  /\ p # path
  /\ path' = p
  /\ Quiet
  /\ UNCHANGED <<features, activeFeatures, lastPath, sidebarPinningEnabled,
                 main, handlers, settings, container>>
  /\ DomUnchanged

\* the page renders, removes or replaces its main content element
ContainerChange(e) ==
  /\ e # container
  /\ container' = e
  /\ Quiet
  /\ UNCHANGED <<features, activeFeatures, lastPath, sidebarPinningEnabled,
                 main, handlers, settings, path>>
  /\ DomUnchanged

\* a mutation under element e: an observer connected to e calls its
\* debounced onMutation, which clears its timer and sets a new one; with
\* no observer connected to e nothing is called
Mutation(e) ==
  /\ IF BagIn(e, connected)
     THEN LET ts == clearTimeout(timers, debounceTimer)
              id == NewTimerId(ts, {messageObserverRetryTimer})
          IN  /\ Cardinality(ts) < MaxTimers
              /\ timers' = ts \cup {[id |-> id, fn |-> "onMutation",
                                     n |-> 0, el |-> e, delay |-> 150]}
              /\ debounceTimer' = id
     ELSE UNCHANGED <<timers, debounceTimer>>
  /\ Quiet
  /\ UNCHANGED <<features, activeFeatures, lastPath, sidebarPinningEnabled,
                 main, handlers, settings, path, container, observers,
                 connected, messageObserverRetryTimer, acquisition>>

\* ------------------------------------------------------------------------
\* Actions: navigation detection and timers
\* ------------------------------------------------------------------------

\* a checkNavigation that resets the cursor (to the root path "/") instead
\* of storing the current path
newCursor_Reset(currentPath) == <<>>

\* lastPath = currentPath: the cursor after a checkNavigation call that
\* found currentPath different from it
newCursor(currentPath) == currentPath

\* checkNavigation() in a turn that starts with the timers ts pending
CheckNavigationOn(ts) ==
  /\ main.pc = "ready"
  /\ IF path = lastPath
     THEN /\ Record("checkNavigation", "-", FALSE, FALSE, Turn)
          /\ timers' = ts
          /\ UNCHANGED <<lastPath, activeFeatures>>
     ELSE /\ Cardinality(ts) < MaxTimers
          /\ \E thr \in SUBSET HasOnNavigate :
               LET c == notifyFrom(Turn, 1, "onNavigate", HasOnNavigate,
                                   getConversationId(path), NoEl, thr)
                   id == NewTimerId(ts, {debounceTimer,
                                         messageObserverRetryTimer})
               IN  /\ lastPath' = newCursor(path)
                   /\ activeFeatures' = c.active
                   /\ timers' = IF c.threw THEN ts
                                ELSE ts \cup
                                       {[id |-> id,
                                         fn |-> "setupMessageObserver",
                                         n |-> 0, el |-> NoEl,
                                         delay |-> 300]}
                   /\ Record("checkNavigation", "-", FALSE, TRUE, c)
  /\ UNCHANGED <<observers, connected, debounceTimer,
                 messageObserverRetryTimer, acquisition>>
  /\ UNCHANGED <<features, sidebarPinningEnabled, main, handlers, settings,
                 path, container>>

\* checkNavigation(), from a popstate/hashchange event or the one second
\* poll
CheckNavigation ==
  /\ main.pc = "ready"
  /\ CheckNavigationOn(timers)

\* checkNavigation called by trigger g
Trigger(g) ==
  /\ g \in main.triggers
  /\ CheckNavigation

\* a page script replaces history.pushState and history.replaceState
OverwriteHooks ==
  /\ main.pc = "ready"
  /\ main' = [main EXCEPT !.triggers = @ \ {"pushState", "replaceState"}]
  /\ hooks' = [hooks EXCEPT !.pushState = 0, !.replaceState = 0]
  /\ QuietTurn
  /\ UNCHANGED <<background, features, activeFeatures, lastPath, sidebarPinningEnabled,
                 handlers, settings, path, container>>
  /\ DomUnchanged

\* a timer that calls setupMessageObserver(n) fires: the 300 ms timer of
\* checkNavigation (n = 0) or a backoff retry (n >= 1)
SetupObserverTimer(t) ==
  /\ t \in timers
  /\ t.fn = "setupMessageObserver"
  /\ SetDom(setupMessageObserver([Dom EXCEPT !.timers = @ \ {t}], t.n))
  /\ Quiet
  /\ UNCHANGED <<features, activeFeatures, lastPath, sidebarPinningEnabled,
                 main, handlers, settings, path, container>>

\* a debounce timer fires: the body of onMutation
DebounceFire(t) ==
  /\ t \in timers
  /\ t.fn = "onMutation"
  /\ timers' = timers \ {t}
  /\ \E thr \in SUBSET HasOnMessagesChanged :
       LET c == notifyFrom(Turn, 1, "onMessagesChanged",
                           HasOnMessagesChanged, NoId, t.el, thr)
       IN  /\ activeFeatures' = c.active
           /\ Record("onMutation", "-", FALSE, FALSE, c)
  /\ UNCHANGED <<features, lastPath, sidebarPinningEnabled, main, handlers,
                 settings, path, container, observers, connected,
                 debounceTimer, messageObserverRetryTimer, acquisition>>

\* ------------------------------------------------------------------------
\* Specifications
\* ------------------------------------------------------------------------

\* startup and the message handlers
Lifecycle ==
  \/ MainWaitResolved
  \/ MainReadSettings
  \/ MainResume
  \/ ReceiveSettingsChanged
  \/ \E h \in BagToSet(handlers) : HandlerReadSettings(h)
  \/ \E h \in BagToSet(handlers) : SyncResume(h)
  \/ \E key \in Keys : ReceiveToggleOn(key)
  \/ \E h \in BagToSet(handlers) : ToggleOnResume(h)
  \/ \E key \in Keys : ToggleOff(key)

\* The lifecycle state machine: the stored configuration is any
\* configuration and the page stays where it is.
Next == Lifecycle

Spec == Init /\ [][Next]_vars

\* startup, FEATURE_TOGGLE(enabled = false), navigation and the mutations
\* of the observed element
Page ==
  \/ MainWaitResolved
  \/ MainReadSettings
  \/ MainResume
  \/ \E key \in Keys : ToggleOff(key)
  \/ \E p \in Paths : Navigate(p)
  \/ \E e \in Elements : Mutation(e)
  \/ CheckNavigation
  \/ \E t \in timers : SetupObserverTimer(t)
  \/ \E t \in timers : DebounceFire(t)

\* The lifecycle hooks: features are activated by main from any stored
\* configuration, the page navigates and mutates its main content, which
\* stays in place.
SpecPage == Init /\ [][Page]_vars

\* ------------------------------------------------------------------------
\* Properties of the lifecycle state machine (checked under Spec)
\* ------------------------------------------------------------------------

Active(key) == Has(activeFeatures, key)

\* the calls of function ev made on the watched module in the last turn
CallsOf(ev) == SelectSeq(last.calls, LAMBDA r : r.ev = ev)

Threw(ev) == \E i \in 1..Len(last.calls) :
               last.calls[i].ev = ev /\ last.calls[i].threw

\* the last turn invoked activateFeature / deactivateFeature on the watched
\* key: a FEATURE_TOGGLE for it, or a reconcile with its flag
InvokedActivate ==
  \/ last.op = "activateFeature" /\ last.key = watch
  \/ last.op = "syncFeatures" /\ last.flag

InvokedDeactivate ==
  \/ last.op = "deactivateFeature" /\ last.key = watch
  \/ last.op = "syncFeatures" /\ ~last.flag

\* C1 as stated: for any key, two activateFeature calls with no
\* deactivateFeature call in between make exactly one init call.
C1_AsStated ==
  (watch \in features /\ hist.acts = 2) => hist.inits = 1

\* C1, amended: two activateFeature calls on a registered key with no
\* deactivateFeature call in between make exactly one init call when the
\* init of the first call returns; an activateFeature call on a key that is
\* already active calls nothing and leaves the key active.
C1_IdempotentActivation ==
  /\ (hist.acts = 2 /\ hist.first = "ok") => hist.inits = 1
  /\ (InvokedActivate /\ last.wasActive) =>
       (last.calls = <<>> /\ Active(watch))

C1_Witness ==
  /\ hist.acts = 2 /\ hist.first = "ok" /\ hist.inits = 1
  /\ last.op = "activateFeature" /\ last.key = watch /\ last.wasActive

\* C2: for a key that is active, two deactivateFeature calls in a row make
\* exactly one destroy call; the call on the key that is already inactive
\* calls nothing, raises nothing and leaves the key inactive.
C2_IdempotentDeactivation ==
  /\ (hist.deacts = 2 /\ hist.wasActive) => hist.destroys = 1
  /\ (InvokedDeactivate /\ ~last.wasActive) =>
       (last.calls = <<>> /\ ~Active(watch) /\ ~last.escaped)

C2_Witness ==
  /\ hist.deacts = 2 /\ hist.wasActive /\ hist.destroys = 1
  /\ last.op = "deactivateFeature" /\ last.key = watch /\ ~last.wasActive

\* C3: in one reconcile in which the init of some feature A throws, every
\* other registered feature B whose flag is enabled (and whose own init
\* does not throw) is active afterwards, and its init was called (once) if
\* it was not active before - whether B comes before or after A.
C3_Isolation ==
  (/\ last.op = "syncFeatures"
   /\ "init" \in last.otherThrew
   /\ watch \in features /\ last.flag /\ ~Threw("init"))
  => /\ Active(watch)
     /\ ~last.wasActive => Len(CallsOf("init")) = 1

\* B is the last key of the iteration: A's init threw before B's turn
C3_Witness ==
  /\ last.op = "syncFeatures" /\ "init" \in last.otherThrew
  /\ watch = FeatureKeys[Len(FeatureKeys)]
  /\ last.flag /\ ~last.wasActive
  /\ Active(watch) /\ Len(CallsOf("init")) = 1

\* the calls a reconcile owes the watched key: destroy once if it was
\* active and is disabled, init once if it was inactive and is enabled,
\* nothing if it was in the target state already
ReconcileCalls ==
  /\ (last.wasActive /\ ~last.flag) =>
       (Len(last.calls) = 1 /\ last.calls[1].ev = "destroy")
  /\ (~last.wasActive /\ last.flag) =>
       (Len(last.calls) = 1 /\ last.calls[1].ev = "init")
  /\ (last.wasActive = last.flag) => last.calls = <<>>

\* C4 as stated: after syncFeatures every registered key is active iff its
\* flag is true, with exactly the calls owed.
C4_AsStated ==
  (last.op = "syncFeatures" /\ watch \in features)
  => (Active(watch) = last.flag /\ ReconcileCalls)

\* C4, amended: after syncFeatures every registered key is active iff its
\* flag is true and its init did not raise in this reconcile (a key whose
\* init raised is inactive), with exactly the calls owed.
C4_Reconciliation ==
  (last.op = "syncFeatures" /\ watch \in features)
  => (Active(watch) = (last.flag /\ ~Threw("init")) /\ ReconcileCalls)

\* the watched key was active and is disabled while another key is enabled
C4_Witness ==
  /\ last.op = "syncFeatures"
  /\ last.wasActive /\ ~last.flag /\ ~Active(watch)
  /\ Len(CallsOf("destroy")) = 1
  /\ activeFeatures # <<>>

\* C5 as stated: a key is active iff init was called on its module more
\* recently than destroy, and init is never called when the most recent
\* call on the module was an init.
C5_AsStated ==
  /\ [](Active(watch) <=> hist.life \in {"init", "initThrew"})
  /\ [][CallsOf("init")' # <<>> => hist.life \notin {"init", "initThrew"}]_vars

\* C5, amended: a key is active iff the most recent init/destroy call on
\* its module is an init that returned, and init is never called when the
\* most recent call on the module was an init that returned.
C5_ActiveSetInvariant ==
  /\ [](Active(watch) <=> hist.life = "init")
  /\ [][CallsOf("init")' # <<>> => hist.life # "init"]_vars

\* a reconcile has just called init on the key, which returned: the key is
\* active
C5_Witness ==
  /\ Active(watch) /\ hist.life = "init"
  /\ last.op = "syncFeatures" /\ Len(CallsOf("init")) = 1
  /\ hist.acts = 1 /\ hist.first = "ok"

\* C6: when init raises inside activateFeature the exception does not
\* escape, the key is not added, and no other key's membership changes.
C6_NoPartialActivation ==
  /\ Threw("init") => (~last.escaped /\ ~Active(watch))
  /\ (last.op = "activateFeature" /\ last.key # watch) =>
       (Active(watch) = last.wasActive /\ last.calls = <<>>)
  /\ (last.op = "activateFeature" /\ "init" \in last.otherThrew) =>
       ~last.escaped

C6_Witness ==
  /\ last.op = "activateFeature" /\ last.key = watch
  /\ Threw("init") /\ ~Active(watch)
  /\ activeFeatures # <<>>

\* C7: when destroy raises inside deactivateFeature the exception does not
\* escape and the key is removed from the active set all the same.
C7_FailForward ==
  Threw("destroy") => (~last.escaped /\ ~Active(watch) /\ last.wasActive)

C7_Witness ==
  /\ last.op = "deactivateFeature" /\ last.key = watch
  /\ Threw("destroy") /\ ~Active(watch)

\* ------------------------------------------------------------------------
\* Properties of the lifecycle hooks (checked under SpecPage)
\* ------------------------------------------------------------------------

\* C8 as stated: a checkNavigation call with the path equal to the cursor
\* calls no onNavigate (and after any call the cursor equals the path, so
\* further triggers for the same change call nothing); a call that finds
\* the path changed calls onNavigate exactly once on every active feature
\* that implements it, with the conversation id of the new path, and calls
\* nothing on the others.
C8_AsStated ==
  last.op = "checkNavigation"
  => /\ lastPath = path
     /\ IF last.detected /\ last.wasActive /\ watch \in features
           /\ watch \in HasOnNavigate
        THEN /\ Len(last.calls) = 1
             /\ last.calls[1].ev = "onNavigate"
             /\ last.calls[1].id = getConversationId(path)
        ELSE last.calls = <<>>

\* C9 as stated: when a navigation is detected and the onNavigate of an
\* active feature throws, every other active feature that implements
\* onNavigate is notified for that navigation.
C9_AsStated ==
  (/\ last.op = "checkNavigation" /\ last.detected
   /\ "onNavigate" \in last.otherThrew
   /\ last.wasActive /\ watch \in features /\ watch \in HasOnNavigate)
  => CallsOf("onNavigate") # <<>>

\* C10 as stated: when the debounced onMutation fires and the
\* onMessagesChanged of an active feature throws, every other active
\* feature that implements onMessagesChanged is called for that firing.
C10_AsStated ==
  (/\ last.op = "onMutation"
   /\ "onMessagesChanged" \in last.otherThrew
   /\ last.wasActive /\ watch \in features
   /\ watch \in HasOnMessagesChanged)
  => CallsOf("onMessagesChanged") # <<>>

\* C11 as stated: every checkNavigation call that updates the cursor leaves
\* a pending timer that calls setupMessageObserver() with retry count 0 -
\* also when the onNavigate of a feature threw in that call.
C11_AsStated ==
  (last.op = "checkNavigation" /\ last.detected)
  => \E t \in timers : t.fn = "setupMessageObserver" /\ t.n = 0

\* ------------------------------------------------------------------------
\* The message observer (checked under SpecObserver)
\* ------------------------------------------------------------------------

\* every feature is enabled in the stored configuration; the history is
\* kept for a feature that implements onMessagesChanged
InitObserver ==
  /\ Init
  /\ settings = [k \in Keys |-> TRUE]
  /\ watch = "formulaCopy"

\* startup, navigation between two paths, the page replacing or removing
\* its main content, mutations and timers
Observer ==
  \/ MainWaitResolved
  \/ MainReadSettings
  \/ MainResume
  \/ \E p \in {PathNew, PathChatA} : Navigate(p)
  \/ \E e \in Elements \cup {NoEl} : ContainerChange(e)
  \/ \E e \in Elements : Mutation(e)
  \/ CheckNavigation
  \/ \E t \in timers : SetupObserverTimer(t)
  \/ \E t \in timers : DebounceFire(t)

SpecObserver == InitObserver /\ [][Observer]_vars

\* C12: at every moment at most one MutationObserver is connected under
\* the name 'messages', and it is the registered one: DOM.observe
\* disconnects the previous observer before it installs the new one, so a
\* mutation of an element other than the registered target calls nothing
\* (no debounce timer is set).
C12_ObserverReplacement ==
  /\ [](connected = IF observers = NoEl THEN EmptyBag
                    ELSE SetToBag({observers}))
  /\ [][\A e \in Elements :
          (Mutation(e) /\ e # observers)
          => UNCHANGED <<timers, debounceTimer>>]_vars

\* the observer has been replaced: it is on the second element while a
\* debounce timer set by the observer of the first element is pending
C12_Witness ==
  /\ observers = "main2" /\ connected = SetToBag({"main2"})
  /\ \E t \in timers : t.fn = "onMutation" /\ t.el = "main1"

\* the delays of the retries 1 to MESSAGE_OBSERVER_MAX_RETRIES
BackoffDelays == <<1000, 2000, 4000, 8000, 10000, 10000>>

\* C13: while the container is not found, the setupMessageObserver run with
\* retry count n < 6 schedules exactly one timer, for retry n + 1 with the
\* delay 1000, 2000, 4000, 8000, 10000, 10000 of that retry, and the run
\* with retry count 6 gives up and schedules nothing; no retry beyond the
\* sixth is ever pending.
C13_BackoffTermination ==
  /\ [](\A t \in timers :
          (t.fn = "setupMessageObserver" /\ t.n >= 1)
          => (t.n <= Len(BackoffDelays) /\ t.delay = BackoffDelays[t.n]))
  /\ [][\A t \in timers :
          (SetupObserverTimer(t) /\ container = NoEl)
          => IF t.n < Len(BackoffDelays)
             THEN /\ acquisition' = "retrying"
                  /\ \E u \in timers' \ timers :
                       /\ timers' = (timers \ {t}) \cup {u}
                       /\ u.fn = "setupMessageObserver"
                       /\ u.n = t.n + 1
                       /\ u.delay = BackoffDelays[u.n]
             ELSE /\ acquisition' = "gaveUp"
                  /\ timers' = timers \ {t}]_vars

\* the sixth retry has run without finding the container
C13_Witness ==
  /\ acquisition = "gaveUp" /\ container = NoEl
  /\ ~\E t \in timers : t.fn = "setupMessageObserver"

\* C14 as stated: after the acquisition has given up, a detected navigation
\* leaves a pending setupMessageObserver() attempt with retry count 0, and
\* a setupMessageObserver run that finds the container installs the
\* 'messages' observer on it.
C14_AsStated ==
  /\ (acquisition = "gaveUp" /\ last.op = "checkNavigation"
      /\ last.detected)
     => \E t \in timers : t.fn = "setupMessageObserver" /\ t.n = 0
  /\ acquisition = "installed"
     => (observers # NoEl /\ connected = SetToBag({observers}))

\* ------------------------------------------------------------------------
\* Configuration changes while messages change (checked under SpecSettings)
\* ------------------------------------------------------------------------

\* the features that implement onMessagesChanged are enabled or not, the
\* others are disabled; the history is kept for one of the former
InitSettings ==
  /\ Init
  /\ \A k \in Keys \ HasOnMessagesChanged : ~settings[k]
  /\ watch \in HasOnMessagesChanged

\* startup, the background script persisting a flag of these features and
\* broadcasting SETTINGS_CHANGED, mutations and the debounce timer
SettingsChanges ==
  \/ MainWaitResolved
  \/ MainReadSettings
  \/ MainResume
  \/ \E key \in HasOnMessagesChanged : StorageWrite(key)
  \/ ReceiveSettingsChanged
  \/ \E h \in BagToSet(handlers) : HandlerReadSettings(h)
  \/ \E h \in BagToSet(handlers) : SyncResume(h)
  \/ \E e \in Elements : Mutation(e)
  \/ \E t \in timers : DebounceFire(t)

SpecSettings == InitSettings /\ [][SettingsChanges]_vars

\* C15: the reconcile that finds an active feature disabled calls its
\* destroy exactly once and leaves it inactive, and an onMutation firing
\* calls onMessagesChanged only on features that are active when it fires:
\* a feature that is inactive gets no onMessagesChanged call, also from a
\* debounce timer that was pending when it was deactivated.
C15_ToggleOff ==
  /\ (last.op = "syncFeatures" /\ last.wasActive /\ ~last.flag)
     => (/\ Len(last.calls) = 1 /\ last.calls[1].ev = "destroy"
         /\ ~Active(watch))
  /\ (last.op = "onMutation" /\ ~last.wasActive) => last.calls = <<>>
  /\ (last.op = "onMutation" /\ last.calls # <<>>) => Active(watch)

\* the watched feature implements onMessagesChanged and has just been
\* destroyed by a reconcile while a debounced notification is pending
C15_Witness ==
  /\ last.op = "syncFeatures" /\ last.wasActive /\ ~last.flag
  /\ watch \in HasOnMessagesChanged
  /\ Len(CallsOf("destroy")) = 1 /\ ~Active(watch)
  /\ activeFeatures # <<>>
  /\ \E t \in timers : t.fn = "onMutation"

\* ------------------------------------------------------------------------
\* Startup (checked under SpecStartup)
\* ------------------------------------------------------------------------

\* startup while the page renders or removes its main content, and the
\* messages of the background script
Startup ==
  \/ MainWaitResolved
  \/ MainReadSettings
  \/ MainResume
  \/ \E e \in Elements \cup {NoEl} : ContainerChange(e)
  \/ ReceiveSettingsChanged
  \/ \E h \in BagToSet(handlers) : HandlerReadSettings(h)
  \/ \E h \in BagToSet(handlers) : SyncResume(h)
  \/ \E key \in Keys : ReceiveToggleOn(key)
  \/ \E h \in BagToSet(handlers) : ToggleOnResume(h)

SpecStartup == Init /\ [][Startup]_vars

\* C16 as stated: while main waits for the main content container, which
\* is not in the page, no init has been called and no feature is active,
\* and once waitForElement has timed out (main returned, the extension is
\* inert) no init is ever called and no feature is active, whatever
\* messages arrive.
C16_AsStated ==
  \/ main.pc = "waitForElement" /\ container = NoEl
  \/ main.pc = "inert"
  => (activeFeatures = <<>> /\ hist.life = "none")

\* ------------------------------------------------------------------------
\* Navigation detection (checked under SpecNavigation)
\* ------------------------------------------------------------------------

\* startup with the history functions hooked or not, a page script
\* replacing them, path changes, the callers of checkNavigation and the
\* timers it sets
Navigation ==
  \/ MainWaitResolved
  \/ MainReadSettings
  \/ MainResume
  \/ MainResumeHookFails
  \/ OverwriteHooks
  \/ \E p \in Paths : Navigate(p)
  \/ \E g \in main.triggers : Trigger(g)
  \/ \E t \in timers : SetupObserverTimer(t)

\* the poll of main (setInterval) keeps calling checkNavigation, and a
\* timer that is set fires
NavigationFairness ==
  /\ WF_vars(Trigger("poll"))
  /\ WF_vars(\E t \in timers : SetupObserverTimer(t))

SpecNavigation ==
  InitObserver /\ [][Navigation]_vars /\ NavigationFairness

\* C17: once startup has completed, main's poll is installed whether the
\* history functions were hooked, could not be hooked or were replaced
\* later, and a path that differs from the cursor is eventually seen by a
\* checkNavigation call (the cursor becomes that path) unless the path
\* changes again first.
C17_EventuallyDetected ==
  /\ [](main.pc = "ready" => "poll" \in main.triggers)
  /\ \A p \in Paths :
       (main.pc = "ready" /\ path = p /\ lastPath # p)
         ~> (lastPath = p \/ path # p)

\* a path change has been detected after the hooks were lost
C17_Witness ==
  /\ main.pc = "ready"
  /\ main.triggers \cap {"pushState", "replaceState"} = {}
  /\ last.op = "checkNavigation" /\ last.detected
  /\ lastPath = PathChatA /\ path = PathChatA

\* ------------------------------------------------------------------------
\* The Timeline module under the calls of the core (checked under
\* SpecTimeline): init on an inactive module, destroy and the hooks on an
\* active one, and the module's timers and promises
\* ------------------------------------------------------------------------

\* what a step of the module leaves alone
CoreUnchanged ==
  /\ last' = NoTurn
  /\ UNCHANGED <<features, activeFeatures, lastPath, sidebarPinningEnabled,
                 main, handlers, settings, path, container, hist, watch,
                 messaging, hooks, background>>
  /\ UNCHANGED Periphery
  /\ DomUnchanged

\* TimelineFeature.init
TimelineInit(messages) ==
  /\ ~timeline.alive
  /\ timeline.loads < MaxLoads
  /\ LET m == [timeline EXCEPT !.conversationId = getConversationId(path)]
     IN  timeline' = [renderTimeline(m, path, messages, "init")
                        EXCEPT !.loads = @ + 1, !.alive = TRUE]
  /\ CoreUnchanged

\* TimelineFeature.destroy
TimelineDestroy ==
  /\ timeline.alive
  /\ timeline' = [removeTimeline(timeline)
                    EXCEPT !.conversationId = NoId, !.alive = FALSE]
  /\ CoreUnchanged

\* TimelineFeature.onNavigate(conversationId), called by checkNavigation
\* with the id of the current path
TimelineOnNavigate(messages) ==
  /\ timeline.alive
  /\ LET id == getConversationId(path)
         m == [timeline EXCEPT !.conversationId = id]
     IN  timeline' =
           IF id # NoId
           THEN [renderTimeline(m, path, messages, "onNavigate")
                   EXCEPT !.navTimers = @ \cup {id}]
           ELSE removeTimeline(m)
  /\ CoreUnchanged

\* TimelineFeature.onMessagesChanged: debouncedRender()
TimelineOnMessagesChanged ==
  /\ timeline.alive
  /\ timeline' = [timeline EXCEPT !.debounce = TRUE]
  /\ CoreUnchanged

\* the timer of debouncedRender fires
TimelineDebounceFire(messages) ==
  /\ timeline.debounce
  /\ timeline' = renderTimeline([timeline EXCEPT !.debounce = FALSE],
                                path, messages, "debouncedRender")
  /\ CoreUnchanged

\* the 400 ms timer set by onNavigate(id) fires
TimelineNavTimerFire(id, messages) ==
  /\ id \in timeline.navTimers
  /\ LET m == [timeline EXCEPT !.navTimers = @ \ {id}]
     IN  timeline' = IF m.conversationId = id
                     THEN renderTimeline(m, path, messages, "onNavigate")
                     ELSE m
  /\ CoreUnchanged

\* a Storage.getStarred() promise of init settles: fulfilled, the then
\* callback stores the stars and renders; rejected, the catch callback logs
TimelineStarredSettled(fulfilled, messages) ==
  /\ timeline.loads > 0
  /\ LET m == [timeline EXCEPT !.loads = @ - 1]
     IN  timeline' = IF fulfilled
                     THEN renderTimeline(m, path, messages, "getStarred")
                     ELSE m
  /\ CoreUnchanged

InitTimeline ==
  /\ Init
  /\ settings = DEFAULT_FEATURE_TOGGLES
  /\ watch = "timeline"

TimelineModule ==
  \/ \E p \in Paths : Navigate(p)
  \/ \E b \in BOOLEAN : TimelineInit(b)
  \/ TimelineDestroy
  \/ \E b \in BOOLEAN : TimelineOnNavigate(b)
  \/ TimelineOnMessagesChanged
  \/ \E b \in BOOLEAN : TimelineDebounceFire(b)
  \/ \E id \in timeline.navTimers, b \in BOOLEAN : TimelineNavTimerFire(id, b)
  \/ \E f, b \in BOOLEAN : TimelineStarredSettled(f, b)

SpecTimeline == InitTimeline /\ [][TimelineModule]_vars

\* C18 as stated (for the Timeline module): after destroy has returned and
\* until the next init the module has no node in the page - none is
\* present and none re-appears through a timer or promise of the module.
C18_AsStated ==
  ~timeline.alive => ~timeline.panel

\* C19 as stated: when the Storage.getStarred() promise started by init
\* settles after the module was destroyed, the completion handler does not
\* render.
C19_AsStated ==
  (~timeline.alive /\ timeline.renderedBy = "getStarred") => ~timeline.panel

\* ------------------------------------------------------------------------
\* Messaging: a sender's send() towards a counterpart context that
\* registers handlers and listens (checked under SpecMessaging)
\* ------------------------------------------------------------------------

\* what a step of the Messaging service leaves alone
MessagingUnchanged ==
  /\ last' = NoTurn
  /\ UNCHANGED <<features, activeFeatures, lastPath, sidebarPinningEnabled,
                 main, handlers, settings, path, container, hist, watch,
                 timeline, hooks, background>>
  /\ UNCHANGED Periphery
  /\ DomUnchanged

\* Messaging.on(type, handler) in the counterpart
MessagingOn(type, handler) ==
  /\ messaging' = [messaging EXCEPT
                      !.handlers = on(@, type, handler),
                      !.registered[type] = handler,
                      !.lastOp = [op |-> "on", type |-> type,
                                  over |-> messaging.handlers[type]]]
  /\ MessagingUnchanged

\* Messaging.off(type) in the counterpart
MessagingOff(type) ==
  /\ messaging' = [messaging EXCEPT
                      !.handlers = off(@, type),
                      !.registered[type] = NoHandler,
                      !.lastOp = [op |-> "off", type |-> type,
                                  over |-> messaging.handlers[type]]]
  /\ MessagingUnchanged

\* Messaging.listen() in the counterpart
MessagingListen ==
  /\ messaging' = [messaging EXCEPT !.listening = TRUE]
  /\ MessagingUnchanged

\* send(message) up to its await: browser.runtime.sendMessage is called
\* (one send is followed at a time: the next starts when the last settled)
MessagingSend(type) ==
  /\ messaging.call.pc \in {"idle", "settled"}
  /\ messaging' = [messaging EXCEPT
                      !.call = [NoCall EXCEPT !.pc = "sent", !.type = type]]
  /\ MessagingUnchanged

\* the browser delivers the message: without a listener in the counterpart
\* (or when the message is lost) sendMessage rejects; otherwise the
\* listener runs, and its return value settles sendMessage unless it is a
\* promise that is still pending
MessagingDeliver(b, lost) ==
  /\ messaging.call.pc = "sent"
  /\ LET c == messaging.call
         r == listener(messaging.handlers, c.type, b)
         called == [NoDid EXCEPT
                      !.by = dispatch(messaging.handlers, c.type),
                      !.replaced =
                        /\ messaging.lastOp.op = "on"
                        /\ messaging.lastOp.type = c.type
                        /\ messaging.lastOp.over
                             \notin {NoHandler, messaging.registered[c.type]}]
     IN  /\ messaging' = [messaging EXCEPT !.call =
           IF lost \/ ~messaging.listening
             THEN [c EXCEPT !.pc = "replied",
                            !.did = [NoDid EXCEPT !.kind = "unreachable",
                                                  !.reason = ConnectionError],
                            !.transport = Rejected(ConnectionError)]
           ELSE IF r.state = "none"
             THEN [c EXCEPT !.pc = "replied",
                            !.did = [called EXCEPT !.kind = "noHandler"],
                            !.transport = Fulfilled(Undefined)]
           ELSE IF r.state = "pending"
             THEN [c EXCEPT !.pc = "handling",
                            !.did = [called EXCEPT !.kind = "pending"]]
           ELSE [c EXCEPT !.pc = "replied",
                          !.did = IF b.kind = "throws"
                                    THEN [called EXCEPT !.kind = "threw",
                                                       !.reason = b.reason]
                                    ELSE [called EXCEPT !.kind = "returned",
                                                       !.value = b.value],
                          !.transport = Fulfilled(r.value)]]
  /\ MessagingUnchanged

\* the promise the handler returned settles; the listener's catch turns a
\* rejection into a failure response, which settles sendMessage
MessagingHandlerSettles(p) ==
  /\ messaging.call.pc = "handling"
  /\ p.state # "pending"
  /\ messaging' = [messaging EXCEPT !.call =
       [@ EXCEPT !.pc = "replied",
                 !.did = [messaging.call.did EXCEPT
                            !.kind = p.state, !.value = p.value,
                            !.reason = p.reason],
                 !.transport = Fulfilled(catch(p).value)]]
  /\ MessagingUnchanged

\* send resumes after its await
MessagingSendSettles ==
  /\ messaging.call.pc = "replied"
  /\ messaging' = [messaging EXCEPT
                      !.call.pc = "settled",
                      !.call.outcome = send(messaging.call.transport)]
  /\ MessagingUnchanged

Settlements ==
  {Fulfilled(v) : v \in Responses \cup {Undefined}}
  \cup {Rejected(e) : e \in Thrown}

InitMessaging ==
  /\ Init
  /\ settings = DEFAULT_FEATURE_TOGGLES
  /\ watch = "timeline"

MessagingNext ==
  \/ \E type \in MessageTypes : MessagingOn(type, "h1")
  \/ \E type \in MessageTypes : MessagingOff(type)
  \/ MessagingListen
  \/ \E type \in MessageTypes \cup {NoType} : MessagingSend(type)
  \/ \E b \in Behaviours, lost \in BOOLEAN : MessagingDeliver(b, lost)
  \/ \E p \in Settlements : MessagingHandlerSettles(p)
  \/ MessagingSendSettles

\* the browser delivers and answers every message, the promise of a handler
\* settles, and the sender's continuation runs
MessagingFairness ==
  /\ WF_vars(\E b \in Behaviours, lost \in BOOLEAN : MessagingDeliver(b, lost))
  /\ WF_vars(\E p \in Settlements : MessagingHandlerSettles(p))
  /\ WF_vars(MessagingSendSettles)

SpecMessaging == InitMessaging /\ [][MessagingNext]_vars /\ MessagingFairness

\* C20: the promise of Messaging.send is never rejected and every send is
\* eventually resolved; it is resolved with the counterpart's response
\* when the handler returned one (directly or through a fulfilled
\* promise), and with {success: false, error: String(err)} when the
\* counterpart is unreachable, its handler threw synchronously or the
\* promise it returned was rejected.
C20_SendAlwaysResolves ==
  /\ [](messaging.call.outcome.state # "rejected")
  /\ [](messaging.call.pc = "settled" =>
          LET c == messaging.call
          IN  /\ c.outcome.state = "fulfilled"
              /\ (c.did.kind \in {"returned", "fulfilled"}
                    /\ c.did.value # Undefined)
                   => c.outcome.value = c.did.value
              /\ c.did.kind \in {"unreachable", "threw", "rejected"}
                   => c.outcome.value =
                        Response(FALSE, Absent, String(c.did.reason)))
  /\ (messaging.call.pc = "sent" ~> messaging.call.pc = "settled")

\* a send whose handler returned a promise that was rejected has been
\* resolved with the failure indication
C20_Witness ==
  /\ messaging.call.pc = "settled"
  /\ messaging.call.did.kind = "rejected"
  /\ messaging.call.outcome.state = "fulfilled"
  /\ ~messaging.call.outcome.value.success

\* ------------------------------------------------------------------------
\* The handler registry of the Messaging service (checked under
\* SpecRegistry): on/off calls with two handlers per type, and messages
\* whose handler returns a response
\* ------------------------------------------------------------------------

RegistryNext ==
  \/ \E type \in MessageTypes, handler \in HandlerIds :
       MessagingOn(type, handler)
  \/ \E type \in MessageTypes : MessagingOff(type)
  \/ MessagingListen
  \/ \E type \in MessageTypes \cup {NoType} : MessagingSend(type)
  \/ \E b \in [kind : {"returns"}, value : {Response(TRUE, Absent, Absent)},
               reason : {NoReason}] : MessagingDeliver(b, FALSE)
  \/ MessagingSendSettles

SpecRegistry == InitMessaging /\ [][RegistryNext]_vars

\* C21: after any sequence of on/off calls a message of type T is
\* dispatched to at most one handler: the one of the most recent on(T, ..)
\* when no off(T) followed it, and none otherwise (never registered, or
\* removed by off(T)).
C21_OneHandlerPerType ==
  /\ [](Len(messaging.call.did.by) <= 1)
  /\ [][(messaging.call.pc = "sent" /\ messaging'.call.pc # "sent")
        => LET type == messaging.call.type
           IN  messaging'.call.did.by =
                 IF ~messaging.listening \/ type = NoType THEN <<>>
                 ELSE IF messaging.registered[type] = NoHandler THEN <<>>
                 ELSE <<messaging.registered[type]>>]_vars

\* a message was dispatched to the handler that had just replaced another
\* handler of its type
C21_Witness ==
  /\ messaging.call.pc = "replied"
  /\ messaging.call.did.replaced
  /\ messaging.call.did.by = <<messaging.registered[messaging.call.type]>>
  /\ messaging.lastOp.over \in HandlerIds

\* ------------------------------------------------------------------------
\* Registration (checked under SpecRegistration): modules are registered
\* one by one while the lifecycle runs
\* ------------------------------------------------------------------------

\* registerFeature(module)
registerFeature(key) ==
  /\ key \notin features
  /\ features' = features \cup {key}
  /\ Quiet
  /\ UNCHANGED <<activeFeatures, lastPath, sidebarPinningEnabled, main,
                 handlers, settings, path, container>>
  /\ DomUnchanged

\* some modules are registered, the others not yet
InitRegistration ==
  /\ \E registered \in SUBSET Keys : Boot(registered)
  /\ settings = [k \in Keys |-> TRUE]

Registration ==
  \/ \E key \in Keys : registerFeature(key)
  \/ MainWaitResolved
  \/ MainReadSettings
  \/ MainResume
  \/ \E key \in Keys : ReceiveToggleOn(key)
  \/ \E h \in BagToSet(handlers) : ToggleOnResume(h)
  \/ \E key \in Keys : ToggleOff(key)

SpecRegistration == InitRegistration /\ [][Registration]_vars

\* C22: an activateFeature call on a key with no registered module (from a
\* FEATURE_TOGGLE or from a reconcile that finds the key enabled) calls
\* nothing, raises nothing and leaves the active set unchanged; once the
\* module is registered, an activateFeature call on the key calls its init
\* and, when init returns, the key is active.
C22_AbsentRegistration ==
  /\ [][(last'.op = "activateFeature" /\ last'.key = watch
         /\ watch \notin features)
        => (/\ last'.calls = <<>> /\ ~last'.escaped
            /\ activeFeatures' = activeFeatures)]_vars
  /\ [][(last'.op = "syncFeatures" /\ last'.flag /\ watch \notin features)
        => (/\ last'.calls = <<>> /\ ~last'.escaped
            /\ Active(watch)' = Active(watch))]_vars
  /\ []((InvokedActivate /\ watch \in features /\ ~last.wasActive)
        => (/\ Len(CallsOf("init")) = 1
            /\ Active(watch) = ~Threw("init")))

\* the first activateFeature call on the key found no module; the module
\* was registered and the second call activated the key
C22_Witness ==
  /\ hist.acts = 2 /\ hist.first = "unregistered"
  /\ last.op = "activateFeature" /\ last.key = watch
  /\ watch \in features /\ Active(watch) /\ Len(CallsOf("init")) = 1

\* ------------------------------------------------------------------------
\* Independence of the features (checked under Spec)
\* ------------------------------------------------------------------------

\* C23: the handling of a FEATURE_TOGGLE message for a key K (the
\* activateFeature or deactivateFeature call it makes) calls no init, no
\* destroy and no hook on the module of any other key, and every other key
\* is active afterwards iff it was active before.
C23_IndependentToggle ==
  (last.op \in {"activateFeature", "deactivateFeature"} /\ last.key # watch)
  => (last.calls = <<>> /\ Active(watch) = last.wasActive)

\* a FEATURE_TOGGLE(K, false) has destroyed the active feature K, whose
\* destroy threw, while another feature is active
C23_Witness ==
  /\ last.op = "deactivateFeature" /\ last.key # watch
  /\ "destroy" \in last.otherThrew
  /\ ~Active(last.key)
  /\ last.wasActive /\ Active(watch)

\* ------------------------------------------------------------------------
\* The navigation cursor (checked under SpecCursor): startup, the message
\* handlers, navigation, mutations and the timers together
\* ------------------------------------------------------------------------

Cursor ==
  \/ MainWaitResolved
  \/ MainReadSettings
  \/ MainResume
  \/ ReceiveSettingsChanged
  \/ \E h \in BagToSet(handlers) : HandlerReadSettings(h)
  \/ \E h \in BagToSet(handlers) : SyncResume(h)
  \/ \E key \in Keys : ReceiveToggleOn(key)
  \/ \E h \in BagToSet(handlers) : ToggleOnResume(h)
  \/ \E key \in Keys : ToggleOff(key)
  \/ \E p \in {PathNew, PathChatA} : Navigate(p)
  \/ \E e \in Elements : Mutation(e)
  \/ CheckNavigation
  \/ \E t \in timers : SetupObserverTimer(t)
  \/ \E t \in timers : DebounceFire(t)

SpecCursor == InitObserver /\ [][Cursor]_vars

\* C24: the cursor lastPath starts as the path of the page load and is
\* changed only by a checkNavigation call, which sets it to the current
\* path; no other step (activateFeature, deactivateFeature, syncFeatures,
\* setupMessageObserver, the message handlers, the timers) writes it.
C24_CursorFrame ==
  [][lastPath' # lastPath
     => (/\ last'.op = "checkNavigation" /\ last'.detected
         /\ path' = path /\ lastPath' = path)]_vars

\* the cursor has followed the page to a chat and back while a message
\* handler is suspended
C24_Witness ==
  /\ last.op = "checkNavigation" /\ last.detected
  /\ lastPath = PathNew /\ path = PathNew
  /\ handlers # EmptyBag
  /\ activeFeatures # <<>>

\* ------------------------------------------------------------------------
\* The history hooks (checked under SpecHistory): startup, further
\* setupNavigationListeners calls, the page calling history.pushState and
\* history.replaceState, and the timers
\* ------------------------------------------------------------------------

\* setupNavigationListeners() runs again after startup
SetupNavigationListenersAgain ==
  /\ main.pc = "ready"
  /\ hooks' = setupNavigationListeners(hooks, FALSE)
  /\ QuietTurn
  /\ UNCHANGED <<background, features, activeFeatures, lastPath, sidebarPinningEnabled,
                 main, handlers, settings, path, container>>
  /\ DomUnchanged

\* the page calls history.pushState / history.replaceState with the url p;
\* the original function changes the path and returns result
HistoryCall(fn, p, result) ==
  /\ LET call == historyCall(fn, hooks[fn], result)
         ts == setCheckTimers(timers, {debounceTimer,
                                       messageObserverRetryTimer},
                              call.events, 1)
     IN  /\ Cardinality(ts) <= MaxTimers
         /\ hooks' = [hooks EXCEPT !.call = call]
         /\ timers' = ts
  /\ path' = p
  /\ QuietTurn
  /\ UNCHANGED <<background, features, activeFeatures, lastPath, sidebarPinningEnabled,
                 main, handlers, settings, container, observers, connected,
                 debounceTimer, messageObserverRetryTimer, acquisition>>

\* the timer set by a wrapper fires: checkNavigation()
CheckNavigationTimer(t) ==
  /\ t \in timers
  /\ t.fn = "checkNavigation"
  /\ CheckNavigationOn(timers \ {t})

InitHistory ==
  /\ Init
  /\ settings = [k \in Keys |-> TRUE]
  /\ watch = "timeline"

History ==
  \/ MainWaitResolved
  \/ MainReadSettings
  \/ MainResume
  \/ SetupNavigationListenersAgain
  \/ \E fn \in HistoryFns, p \in {PathNew, PathChatA},
        result \in {"undefined", "state"} : HistoryCall(fn, p, result)
  \/ \E t \in timers : CheckNavigationTimer(t)
  \/ \E t \in timers : SetupObserverTimer(t)

SpecHistory == InitHistory /\ [][History]_vars

\* C25: a call of the hooked pushState / replaceState runs the original
\* function first, then sets a timer for checkNavigation, and returns the
\* result of the original; nothing else runs inside the call: no hook of a
\* feature is called, the cursor is not moved, and exactly one
\* checkNavigation timer is added.  The wrappers and the listeners are
\* installed at most once, however often setupNavigationListeners runs.
C25_HistoryInterception ==
  /\ [](hooks.call.layers >= 1
        => (/\ hooks.call.events = <<"original", "setTimeout">>
            /\ hooks.call.returned = hooks.call.result))
  /\ [][\A fn \in HistoryFns, p \in {PathNew, PathChatA},
           result \in {"undefined", "state"} :
          HistoryCall(fn, p, result)
          => (/\ last'.calls = <<>> /\ last'.op = "other"
              /\ lastPath' = lastPath
              /\ hooks[fn] >= 1
                 => \E t \in timers' \ timers :
                      /\ timers' = timers \cup {t}
                      /\ t.fn = "checkNavigation"
                      /\ t.delay = 0)]_vars
  /\ [](/\ hooks.pushState <= 1 /\ hooks.replaceState <= 1
        /\ hooks.listeners <= 1)

\* setupNavigationListeners has run twice and the page has pushed a new
\* path: the check is pending, no feature has been notified yet
C25_Witness ==
  /\ hooks.runs = 2 /\ hooks.pushState = 1
  /\ hooks.call.fn = "pushState" /\ hooks.call.layers = 1
  /\ path = PathChatA /\ lastPath = PathNew
  /\ activeFeatures # <<>>
  /\ \E t \in timers : t.fn = "checkNavigation"

\* ------------------------------------------------------------------------
\* Actions: the background script and the delivery of its messages
\* ------------------------------------------------------------------------

\* number of messages that may be on their way to the tab at once
MaxInbox == 2

\* a background handler in flight: FEATURE_TOGGLE {key, enabled}, or
\* UPDATE_SETTINGS whose patch sets every feature flag to enabled (key "*")
\* or has no features field (key "-").  pc is "update" until the storage
\* update has settled, then "query"; written (history): the update has
\* been persisted
BackgroundHandler(type, key, enabled, pc, written) ==
  [type |-> type, key |-> key, enabled |-> enabled, pc |-> pc,
   written |-> written]

\* the configuration after the updater of the handler
applyUpdate(cfg, h) ==
  IF h.type = "FEATURE_TOGGLE" THEN [cfg EXCEPT ![h.key] = h.enabled]
  ELSE IF h.key = "*" THEN [k \in Keys |-> h.enabled]
  ELSE cfg

\* the message a handler sends to the tab, marked (history) with whether
\* the sender's update had been persisted when it was sent
notification(h) ==
  IF h.type = "FEATURE_TOGGLE"
  THEN [type |-> "FEATURE_TOGGLE", key |-> h.key, enabled |-> h.enabled,
        persisted |-> h.written]
  ELSE [type |-> "SETTINGS_CHANGED", key |-> "-", enabled |-> FALSE,
        persisted |-> h.written]

\* what a step of the background script leaves alone
ContentUnchanged ==
  /\ QuietTurn
  /\ UNCHANGED <<features, activeFeatures, lastPath, sidebarPinningEnabled,
                 main, handlers, path, container, hooks>>
  /\ DomUnchanged

\* a handler that queries the tabs and notifies first, without having
\* persisted the update
BackgroundReceive_NotifyFirst(type, key, enabled) ==
  /\ BagCardinality(background.handlers) < MaxInFlight
  /\ background' = [background EXCEPT !.handlers =
       @ (+) SetToBag({BackgroundHandler(type, key, enabled, "query",
                                         FALSE)})]
  /\ UNCHANGED settings
  /\ ContentUnchanged

\* the popup's message is dispatched in the background script: the handler
\* starts and suspends on the storage update
BackgroundReceive(type, key, enabled) ==
  /\ BagCardinality(background.handlers) < MaxInFlight
  /\ background' = [background EXCEPT !.handlers =
       @ (+) SetToBag({BackgroundHandler(type, key, enabled, "update",
                                         FALSE)})]
  /\ UNCHANGED settings
  /\ ContentUnchanged

\* Storage.updateSettings / updateSettingsWith settles: persisted, the
\* handler goes on to query the tabs; or the write failed and the handler
\* ends with the exception
BackgroundUpdate(h, ok) ==
  /\ BagIn(h, background.handlers)
  /\ h.pc = "update"
  /\ settings' = IF ok THEN applyUpdate(settings, h) ELSE settings
  /\ background' = [background EXCEPT !.handlers =
       IF ok
       THEN (@ (-) SetToBag({h}))
            (+) SetToBag({[h EXCEPT !.pc = "query", !.written = TRUE]})
       ELSE @ (-) SetToBag({h})]
  /\ ContentUnchanged

\* browser.tabs.query settles: the handler sends its message to the tab
\* and returns
BackgroundNotify(h) ==
  /\ BagIn(h, background.handlers)
  /\ h.pc = "query"
  /\ Len(background.tab) < MaxInbox
  /\ background' = [handlers |-> background.handlers (-) SetToBag({h}),
                    tab |-> Append(background.tab, notification(h))]
  /\ UNCHANGED settings
  /\ ContentUnchanged

\* the oldest message on its way is dispatched in the content script
DeliverSettingsChanged ==
  /\ background.tab # <<>>
  /\ Head(background.tab).type = "SETTINGS_CHANGED"
  /\ Dispatch(Handler("sync", "-", "getSettings", NoSnap))
  /\ background' = [background EXCEPT !.tab = Tail(@)]

DeliverToggleOn ==
  /\ background.tab # <<>>
  /\ Head(background.tab).type = "FEATURE_TOGGLE"
  /\ Head(background.tab).enabled
  /\ Dispatch(Handler("toggle", Head(background.tab).key, "getSettings",
                      NoSnap))
  /\ background' = [background EXCEPT !.tab = Tail(@)]

DeliverToggleOff ==
  /\ background.tab # <<>>
  /\ Head(background.tab).type = "FEATURE_TOGGLE"
  /\ ~Head(background.tab).enabled
  /\ ToggleOffTurn(Head(background.tab).key)
  /\ background' = [background EXCEPT !.tab = Tail(@)]

\* ------------------------------------------------------------------------
\* Agreement of the active set with the stored configuration (checked
\* under SpecAgreement): once startup is complete, the popup toggles one
\* feature or all of them through the background script; no init throws
\* ------------------------------------------------------------------------

\* the popup's messages: the toggle of one feature, and the toggle of all
PopupMessages ==
  ({"FEATURE_TOGGLE"} \X {"timeline"} \X BOOLEAN)
    \cup ({"UPDATE_SETTINGS"} \X {"*"} \X BOOLEAN)

InitAgreement ==
  /\ Init
  /\ settings = DEFAULT_FEATURE_TOGGLES
  /\ watch = "timeline"

Agreement ==
  \/ MainWaitResolved
  \/ MainReadSettings
  \/ MainResumeOn(FALSE, {{}})
  \/ \E m \in PopupMessages :
       /\ main.pc = "ready"
       /\ BackgroundReceive(m[1], m[2], m[3])
  \/ \E h \in BagToSet(background.handlers) : BackgroundUpdate(h, TRUE)
  \/ \E h \in BagToSet(background.handlers) : BackgroundNotify(h)
  \/ DeliverSettingsChanged
  \/ DeliverToggleOn
  \/ DeliverToggleOff
  \/ \E h \in BagToSet(handlers) : HandlerReadSettings(h)
  \/ \E h \in BagToSet(handlers) : SyncResumeOn(h, {{}})
  \/ \E h \in BagToSet(handlers) : ToggleOnResumeOn(h, {FALSE})

SpecAgreement == InitAgreement /\ [][Agreement]_vars

\* startup is complete, no handler of the background script or of the
\* content script is in flight and no message is on its way
Quiescent ==
  /\ main.pc = "ready"
  /\ handlers = EmptyBag
  /\ background.handlers = EmptyBag
  /\ background.tab = <<>>

\* C26 as stated: when no init throws, once every handler has completed,
\* every registered key is active iff its flag in the stored configuration
\* is true, for every interleaving.
C26_AsStated ==
  Quiescent => \A k \in features : Active(k) <=> settings[k]

\* the pending timers of the backoff: those that call
\* setupMessageObserver(n) with a retry count n >= 1
RetryTimers == {t \in timers : t.fn = "setupMessageObserver" /\ t.n >= 1}

\* C27 as stated: at any time at most one retry timer of the message
\* observer is pending - an acquisition started by a detected navigation
\* while an earlier backoff chain is waiting cancels or supersedes that
\* chain.
C27_AsStated == Cardinality(RetryTimers) <= 1

\* C28 as stated: onMessagesChanged is only called with the element the
\* current 'messages' observer is registered on - once the observer has
\* been re-installed on a new container, no debounce timer of the previous
\* observer delivers the previous container to the features.
C28_AsStated ==
  last.op = "onMutation"
  => \A i \in 1..Len(last.calls) :
       last.calls[i].ev = "onMessagesChanged"
       => last.calls[i].el = observers

\* ------------------------------------------------------------------------
\* A failed read of the stored configuration (checked under
\* SpecReadFailure)
\* ------------------------------------------------------------------------

\* Storage.getSettings(): getLocal answers the stored value, or its
\* fallback DEFAULT_SETTINGS when browser.storage.local.get rejects; the
\* defaults need no migration and no normalisation
getSettings(stored, readFails) ==
  IF readFails THEN DEFAULT_FEATURE_TOGGLES ELSE stored

\* the storage read of main's syncFeatures rejects
MainReadFails ==
  /\ main.pc = "getSettings"
  /\ main' = [main EXCEPT !.pc = "syncFeatures",
                          !.snap = getSettings(settings, TRUE)]
  /\ Quiet
  /\ UNCHANGED <<features, activeFeatures, lastPath, sidebarPinningEnabled,
                 handlers, settings, path, container>>
  /\ DomUnchanged

\* the storage read of a suspended SETTINGS_CHANGED handler rejects
HandlerReadFails(h) ==
  /\ BagIn(h, handlers)
  /\ h.kind = "sync"
  /\ h.pc = "getSettings"
  /\ handlers' = Finish(h)
                   (+) SetToBag({Handler("sync", "-", "resume",
                                         getSettings(settings, TRUE))})
  /\ Quiet
  /\ UNCHANGED <<features, activeFeatures, lastPath, sidebarPinningEnabled,
                 main, settings, path, container>>
  /\ DomUnchanged

\* every feature is enabled in the stored configuration, which is never
\* written: a snapshot with a false flag is the fallback of a failed read
InitReadFailure ==
  /\ Init
  /\ settings = [k \in Keys |-> TRUE]
  /\ watch = "timeline"

ReadFailure ==
  \/ MainWaitResolved
  \/ MainReadSettings
  \/ MainReadFails
  \/ MainResume
  \/ ReceiveSettingsChanged
  \/ \E h \in BagToSet(handlers) : HandlerReadSettings(h)
  \/ \E h \in BagToSet(handlers) : HandlerReadFails(h)
  \/ \E h \in BagToSet(handlers) : SyncResume(h)

SpecReadFailure == InitReadFailure /\ [][ReadFailure]_vars

\* C29 as stated: a syncFeatures run whose storage read failed (its
\* snapshot has the flag of the feature false although the stored flag is
\* true) leaves the feature as it was: an active feature is not
\* deactivated.
C29_AsStated ==
  (last.op = "syncFeatures" /\ ~last.flag /\ settings[watch])
  => (Active(watch) = last.wasActive)

\* ------------------------------------------------------------------------
\* Persist before notify (checked under SpecPersist): the popup changes
\* one feature, all features or a setting that is no feature, at any
\* time; the write of the background script succeeds or fails
\* ------------------------------------------------------------------------

Persist ==
  \/ MainWaitResolved
  \/ MainReadSettings
  \/ MainResumeOn(FALSE, {{}})
  \/ \E m \in PopupMessages \cup {<<"UPDATE_SETTINGS", "-", FALSE>>} :
       BackgroundReceive(m[1], m[2], m[3])
  \/ \E h \in BagToSet(background.handlers), ok \in BOOLEAN :
       BackgroundUpdate(h, ok)
  \/ \E h \in BagToSet(background.handlers) : BackgroundNotify(h)
  \/ DeliverSettingsChanged
  \/ DeliverToggleOn
  \/ DeliverToggleOff
  \/ \E h \in BagToSet(handlers) : HandlerReadSettings(h)
  \/ \E h \in BagToSet(handlers) : SyncResumeOn(h, {{}})
  \/ \E h \in BagToSet(handlers) : ToggleOnResumeOn(h, {FALSE})

SpecPersist == InitAgreement /\ [][Persist]_vars

\* C30: the UPDATE_SETTINGS and FEATURE_TOGGLE handlers of the background
\* script complete the write of the new configuration before they send a
\* notification to the tab: a handler that has gone on to query the tabs
\* has persisted its update, and every message on its way to the content
\* script was sent after the write of its sender - so the handler that the
\* message starts reads the storage after that write.
C30_PersistBeforeNotify ==
  /\ \A h \in BagToSet(background.handlers) : h.pc = "query" => h.written
  /\ \A i \in 1..Len(background.tab) : background.tab[i].persisted

\* the background script has persisted timeline = true and its
\* FEATURE_TOGGLE message is on its way to the content script, whose
\* startup is complete
C30_Witness ==
  /\ main.pc = "ready"
  /\ background.tab # <<>>
  /\ Head(background.tab).type = "FEATURE_TOGGLE"
  /\ Head(background.tab).enabled
  /\ Head(background.tab).persisted
  /\ settings["timeline"]

\* ------------------------------------------------------------------------
\* Settings updates of one Storage instance (checked under SpecUpdates)
\* ------------------------------------------------------------------------

\* number of updateSettingsWith calls on the instance
MaxUpdates == 2

\* what the actions of a component outside the content script leave alone
ProgramUnchanged ==
  /\ last' = NoTurn
  /\ UNCHANGED <<features, activeFeatures, lastPath, sidebarPinningEnabled,
                 main, handlers, path, container, hist, watch, timeline,
                 messaging, hooks, background>>
  /\ DomUnchanged

\* the updaters the background script passes: features[key] = enabled
Updaters == {"FEATURE_TOGGLE"} \X {"timeline", "folders"} \X BOOLEAN

\* runSerializedSettingsUpdate: the operation of call i starts when the
\* run of every earlier call has settled, fulfilled or rejected
runSerializedSettingsUpdate(ops, i) ==
  \A j \in 1..(i - 1) : ops[j].pc \in {"done", "failed"}

\* updateSettingsWith(updater) is called: its operation is chained to
\* settingsUpdateQueue
UpdateSettingsWith(u) ==
  /\ Len(storage.ops) < MaxUpdates
  /\ storage' = [storage EXCEPT !.ops =
       Append(@, [type |-> u[1], key |-> u[2], enabled |-> u[3],
                  pc |-> "queued", current |-> NoSnap])]
  /\ UNCHANGED <<settings, debounced, local, popup>>
  /\ ProgramUnchanged

\* the operation of call i runs up to its write: current = await
\* getSettings(), updated = updater(current), setSettings(updated) awaits
\* the write
UpdateRead(i, readFails) ==
  /\ i \in 1..Len(storage.ops)
  /\ storage.ops[i].pc = "queued"
  /\ runSerializedSettingsUpdate(storage.ops, i)
  /\ storage' = [storage EXCEPT
                   !.ops[i].pc = "write",
                   !.ops[i].current = getSettings(settings, readFails)]
  /\ UNCHANGED <<settings, debounced, local, popup>>
  /\ ProgramUnchanged

\* the write of call i settles: setLocal has stored updated and the run
\* is fulfilled, or setLocal threw and the run is rejected
UpdateWrite(i, ok) ==
  /\ i \in 1..Len(storage.ops)
  /\ storage.ops[i].pc = "write"
  /\ settings' = IF ok
                 THEN applyUpdate(storage.ops[i].current, storage.ops[i])
                 ELSE settings
  /\ storage' = [storage EXCEPT
                   !.ops[i].pc = IF ok THEN "done" ELSE "failed",
                   !.model = IF ok THEN applyUpdate(@, storage.ops[i])
                             ELSE @]
  /\ UNCHANGED <<debounced, local, popup>>
  /\ ProgramUnchanged

InitUpdates ==
  /\ BootFrom(Keys, NoRaw, settings)
  /\ watch = "timeline"

Updates ==
  \/ \E u \in Updaters : UpdateSettingsWith(u)
  \/ \E i \in 1..Len(storage.ops), readFails \in BOOLEAN :
       UpdateRead(i, readFails)
  \/ \E i \in 1..Len(storage.ops), ok \in BOOLEAN : UpdateWrite(i, ok)

SpecUpdates == InitUpdates /\ [][Updates]_vars

\* C31 as stated: the updates of one Storage instance run one at a time in
\* call order, each updater is applied to the configuration produced by all
\* earlier updates, and no update is lost: the stored configuration is the
\* one the successful updaters produce in call order.
C31_AsStated ==
  /\ Cardinality({i \in 1..Len(storage.ops) :
                    storage.ops[i].pc = "write"}) <= 1
  /\ \A i \in 1..Len(storage.ops) :
       storage.ops[i].pc # "queued"
       => \A j \in 1..(i - 1) : storage.ops[j].pc \in {"done", "failed"}
  /\ \A i \in 1..Len(storage.ops) :
       storage.ops[i].pc = "write" => storage.ops[i].current = storage.model
  /\ settings = storage.model

\* C32 as stated: every dispatch of a lifecycle event calls exactly the
\* features that are active when it fires and implement the hook: the
\* onNavigate round of a detected navigation and the onMessagesChanged
\* round of a debounce firing call the feature if and only if it is
\* active at that moment and has the hook.
C32_AsStated ==
  /\ (last.op = "checkNavigation" /\ last.detected)
     => (CallsOf("onNavigate") # <<>>
         <=> (last.wasActive /\ watch \in features
              /\ watch \in HasOnNavigate))
  /\ last.op = "onMutation"
     => (CallsOf("onMessagesChanged") # <<>>
         <=> (last.wasActive /\ watch \in features
              /\ watch \in HasOnMessagesChanged))

\* ------------------------------------------------------------------------
\* debounce (checked under SpecDebounce): time is counted in ticks; a
\* timer runs when its delay has elapsed, before anything else that
\* happens at that instant
\* ------------------------------------------------------------------------

\* the delay ms of the wrapped function, in ticks
DebounceMs == 2

\* the clock stops here
MaxTime == 6

\* number of calls of the wrapped function
MaxCalls == 3

\* the arguments of a call
Args == {"a", "b"}

\* the wrapper without clearTimeout: every call sets one more timer
debounce_NoClear(d, args) ==
  [d EXCEPT !.pending = @ \cup {[id |-> d.ncalls + 1,
                                 due |-> d.now + DebounceMs,
                                 args |-> args]},
            !.timer = d.ncalls + 1]

\* the function returned by debounce(fn, ms), called with args:
\* clearTimeout(timer); timer = setTimeout(() => fn(...args), ms)
debounce(d, args) ==
  [d EXCEPT !.pending = {t \in @ : t.id # d.timer}
                          \cup {[id |-> d.ncalls + 1,
                                 due |-> d.now + DebounceMs,
                                 args |-> args]},
            !.timer = d.ncalls + 1]

\* no timer is due at this instant
NoneDue == \A t \in debounced.pending : t.due > debounced.now

\* a call of the wrapped function; (history) it starts a burst when it is
\* the first call or comes ms or more after the call before it
DebouncedCall(args) ==
  /\ NoneDue
  /\ debounced.ncalls < MaxCalls
  /\ debounced' =
       [debounce(debounced, args) EXCEPT
          !.ncalls = @ + 1,
          !.bursts = IF debounced.ncalls = 0
                        \/ debounced.now - debounced.lastCall.at
                             >= DebounceMs
                     THEN @ + 1 ELSE @,
          !.lastCall = [at |-> debounced.now, args |-> args]]
  /\ UNCHANGED <<settings, storage, local, popup>>
  /\ ProgramUnchanged

\* a timer of the wrapper runs: fn(...args)
DebouncedFire(t) ==
  /\ t \in debounced.pending
  /\ t.due = debounced.now
  /\ debounced' =
       [debounced EXCEPT
          !.pending = @ \ {t},
          !.fired = @ + 1,
          !.lastFire = [at |-> debounced.now, args |-> t.args,
                        callAt |-> debounced.lastCall.at,
                        callArgs |-> debounced.lastCall.args]]
  /\ UNCHANGED <<settings, storage, local, popup>>
  /\ ProgramUnchanged

\* one tick passes
DebouncedTick ==
  /\ NoneDue
  /\ debounced.now < MaxTime
  /\ debounced' = [debounced EXCEPT !.now = @ + 1]
  /\ UNCHANGED <<settings, storage, local, popup>>
  /\ ProgramUnchanged

InitDebounce ==
  /\ Init
  /\ settings = DEFAULT_FEATURE_TOGGLES
  /\ watch = "timeline"

Debounce ==
  \/ \E args \in Args : DebouncedCall(args)
  \/ \E t \in debounced.pending : DebouncedFire(t)
  \/ DebouncedTick

SpecDebounce == InitDebounce /\ [][Debounce]_vars

\* C33: a burst of calls of the wrapped function in which consecutive
\* calls are less than ms apart causes exactly one invocation of fn: every
\* burst that has ended has been answered by one invocation and the burst
\* under way has one timer pending; each invocation happens ms after the
\* last call of its burst, with the arguments of that call.
C33_DebounceCoalescing ==
  /\ debounced.fired + Cardinality(debounced.pending) = debounced.bursts
  /\ debounced.fired > 0
     => /\ debounced.lastFire.at = debounced.lastFire.callAt + DebounceMs
        /\ debounced.lastFire.args = debounced.lastFire.callArgs

\* a burst of three calls at three instants, with different arguments, has
\* been answered by its one invocation
C33_Witness ==
  /\ debounced.ncalls = 3 /\ debounced.bursts = 1 /\ debounced.fired = 1
  /\ debounced.lastFire.callAt = 2
  /\ debounced.lastFire.args = "b"
  /\ debounced.pending = {}

\* C34 as stated: Messaging.send reports success only when the message was
\* handled: a send whose message found no handler registered for its type
\* in the counterpart (the listener returned no response) is resolved with
\* a failure indication, not with {success: true}.
C34_AsStated ==
  (messaging.call.pc = "settled" /\ messaging.call.did.kind = "noHandler")
  => ~messaging.call.outcome.value.success

\* C35: destroy is called on a feature module only while its key is in the
\* active set, that is after an init of the key has returned without
\* raising and with no destroy since: every turn that calls destroy on the
\* feature starts with the feature active and its most recent init/destroy
\* call a returned init, calls destroy once and leaves the feature
\* inactive - so neither a feature whose init raised nor a feature that
\* was never activated gets a destroy call.
C35_DestroyOnlyActive ==
  [][(\E i \in 1..Len(last'.calls) : last'.calls[i].ev = "destroy")
     => /\ Has(activeFeatures, watch)
        /\ hist.life = "init"
        /\ Len(SelectSeq(last'.calls, LAMBDA r : r.ev = "destroy")) = 1
        /\ ~Has(activeFeatures', watch)]_vars

\* a reconcile has just called destroy on the feature, which was active
\* after an init that returned, and left it inactive
C35_Witness ==
  /\ last.op = "syncFeatures"
  /\ last.wasActive
  /\ Len(CallsOf("destroy")) = 1
  /\ hist.life = "destroy"
  /\ ~Active(watch)

\* C36 as stated (its first part): sidebar pinning follows the folders
\* feature - after every completed syncFeatures run and FEATURE_TOGGLE
\* handler, sidebarPinningEnabled is true only if 'folders' is in the
\* active set.
C36_AsStated ==
  (last.op \in {"syncFeatures", "activateFeature", "deactivateFeature"}
   /\ ~last.escaped)
  => (sidebarPinningEnabled => Has(activeFeatures, "folders"))

\* ------------------------------------------------------------------------
\* The configuration Storage.getSettings returns (checked under SpecGet).
\* Any value may be stored under the settings key; getSettings is called
\* on it, and again on what the call left in the storage.
\* ------------------------------------------------------------------------

\* the values setSettings is called with, in order, by getSettings on s:
\* migrated by migrateIfNeeded, normalized when it differs from migrated
SettingsWrites(s) ==
  LET m == migrateIfNeeded(s)
      n == normalizeSettings(m.value)
  IN  (IF m.wrote THEN <<m.value>> ELSE <<>>)
        \o (IF settingsEqual(m.value, n) THEN <<>> ELSE <<n>>)

\* Storage.getSettings(): readFails says browser.storage.local.get
\* rejects, fails is the number of the setLocal that rejects (0: none).  A
\* rejected setLocal is rethrown and the call rejects; setSync never
\* throws.
GetSettings(readFails, fails) ==
  LET s == getLocal(local.raw, readFails)
      W == SettingsWrites(s)
      n == normalizeSettings(migrateIfNeeded(s).value)
      done == IF fails = 0 THEN Len(W) ELSE fails - 1
  IN  /\ fails <= Len(W)
      /\ ~(readFails /\ ~local.raw.present)
      /\ local' = [raw |-> IF done = 0 THEN local.raw ELSE W[done],
                   call |-> [pc |-> IF fails = 0 THEN "returned"
                                                 ELSE "rejected",
                             from |-> local.raw,
                             readFailed |-> readFails,
                             read |-> s,
                             value |-> IF fails = 0 THEN n ELSE NoRaw,
                             writes |-> done]]
      /\ UNCHANGED <<settings, storage, debounced, popup>>
      /\ ProgramUnchanged

InitGet ==
  /\ \E raw \in RawValues : BootFrom({}, raw, NoSnap)
  /\ settings = DEFAULT_FEATURE_TOGGLES
  /\ watch = "timeline"

Get == \E readFails \in BOOLEAN, fails \in 0..2 : GetSettings(readFails, fails)

SpecGet == InitGet /\ [][Get]_vars

\* the keys of a configuration's features map
FeatureKeysOf(s) ==
  IF s.hasFeatures THEN {n \in Names : s.features[n] # "absent"} ELSE {}

\* C37: Normalized configuration: every configuration Storage.getSettings
\* returns has a features map with exactly the known feature keys, each a
\* boolean - the boolean of the value read from the storage where that
\* value has one for the key, the default otherwise - and schemaVersion
\* equal to the current version, and normalizing it again changes nothing.
C37_NormalizedConfiguration ==
  local.call.pc = "returned" =>
    LET v == local.call.value
        read == local.call.read
    IN  /\ FeatureKeysOf(v) = Keys
        /\ \A k \in Keys :
             /\ v.features[k] \in {"true", "false"}
             /\ v.features[k] =
                  IF read.hasFeatures /\ read.features[k] \in {"true", "false"}
                    THEN read.features[k]
                    ELSE text(DEFAULT_FEATURE_TOGGLES[k])
        /\ (~local.call.readFailed /\ local.call.from.present)
             => read = local.call.from
        /\ v.schemaVersion = CURRENT_SCHEMA_VERSION
        /\ normalizeSettings(v) = v

\* a stored value of a newer version with a boolean, a value of another
\* type and a stale key was read, normalized, written back and returned
C37_Witness ==
  /\ local.call.pc = "returned"
  /\ ~local.call.readFailed
  /\ local.call.from.schemaVersion = CURRENT_SCHEMA_VERSION + 1
  /\ local.call.from.features["folders"] = "true"
  /\ local.call.from.features["timeline"] = "1"
  /\ local.call.from.features["legacy"] = "true"
  /\ local.call.value.features["folders"] = "true"
  /\ local.call.writes = 1
  /\ local.raw = local.call.value

\* ------------------------------------------------------------------------
\* The popup's setting changes (checked under SpecPopup).  The popup loads
\* the settings on mount and renders its controls when the load has
\* settled; every control submits a change through applySettingChange,
\* whose operation runs in the popup's queue.
\* ------------------------------------------------------------------------

MaxChanges == 2

AllOn == [k \in Keys |-> TRUE]

\* the changes the controls submit: toggleFeature(key), and the patch of
\* toggleAllFeatures, which is computed when the control is used
Toggle(key) == [kind |-> "FEATURE_TOGGLE", key |-> key, features |-> NoSnap]

Patch(patch) ==
  [kind |-> "UPDATE_SETTINGS", key |-> "-", features |-> patch]

\* buildOptimistic(current) of a change
buildOptimistic(change, current) ==
  IF change.kind = "FEATURE_TOGGLE"
    THEN [current EXCEPT ![change.key] = ~@]
    ELSE change.features

\* the outcomes of the send that the operation tells apart: an exception
\* (Messaging.send catches its own and answers with a failure), an answer
\* without success, with success and no data, with success and the data
\* the background script stored
PopupResponses ==
  {[kind |-> k, data |-> NoSnap] : k \in {"threw", "failure", "success"}}
    \cup {[kind |-> "data", data |-> d] :
            d \in {DEFAULT_FEATURE_TOGGLES, AllOn,
                   [DEFAULT_FEATURE_TOGGLES EXCEPT !["folders"] = TRUE]}}

\* the load on mount settles: setSettings(res.data) on success, the
\* settings stay DEFAULT_SETTINGS otherwise; the render that shows the
\* controls also runs the effect settingsRef.current = settings
PopupLoaded(res) ==
  /\ popup.loading
  /\ LET loaded == IF res.kind = "data" THEN res.data ELSE popup.settings
     IN  popup' = [popup EXCEPT !.loading = FALSE, !.settings = loaded,
                                !.settingsRef = loaded]
  /\ UNCHANGED <<settings, storage, debounced, local>>
  /\ ProgramUnchanged

\* applySettingChange(buildOptimistic, createMessage): runQueued chains
\* the operation behind the queue
applySettingChange(change) ==
  /\ ~popup.loading
  /\ Len(popup.ops) < MaxChanges
  /\ popup' = [popup EXCEPT !.ops =
                 Append(@, [change |-> change, pc |-> "queued",
                            previous |-> NoSnap, optimistic |-> NoSnap,
                            before |-> NoSnap,
                            res |-> [kind |-> "none", data |-> NoSnap]])]
  /\ UNCHANGED <<settings, storage, debounced, local>>
  /\ ProgramUnchanged

\* toggleFeature(key)
toggleFeature(key) == applySettingChange(Toggle(key))

\* toggleAllFeatures(): the new state is derived from settingsRef.current
\* at the time of the call, before the change is queued
toggleAllFeatures ==
  LET current == popup.settingsRef
      allEnabled == \A k \in Keys : current[k]
  IN  applySettingChange(Patch([k \in Keys |-> ~allEnabled]))

\* runQueued(operation): the operation of change i runs when the run of
\* every earlier change has settled
runQueued(ops, i) == \A j \in 1..(i - 1) : ops[j].pc = "done"

\* the operation up to its await: previous, optimistic, the optimistic
\* value is shown, the message is sent
OperationStart(i) ==
  /\ i \in 1..Len(popup.ops)
  /\ popup.ops[i].pc = "queued"
  /\ runQueued(popup.ops, i)
  /\ LET previous == popup.settingsRef
         optimistic == buildOptimistic(popup.ops[i].change, previous)
     IN  popup' = [popup EXCEPT !.settingsRef = optimistic,
                                !.settings = optimistic,
                                !.ops[i].pc = "sending",
                                !.ops[i].previous = previous,
                                !.ops[i].optimistic = optimistic,
                                !.ops[i].before = popup.settings]
  /\ UNCHANGED <<settings, storage, debounced, local>>
  /\ ProgramUnchanged

\* the operation with the optimistic value left in place when the send
\* fails
settled_NoRollback(op, res) ==
  IF res.kind = "data" THEN res.data ELSE op.optimistic

\* the value the operation leaves in settingsRef.current and in the state
\* when Messaging.send has settled with res
settled(op, res) ==
  IF res.kind \in {"threw", "failure"} THEN op.previous
  ELSE IF res.kind = "data" THEN res.data
  ELSE op.optimistic

\* the rest of the operation, after the await
OperationSettle(i, res) ==
  /\ i \in 1..Len(popup.ops)
  /\ popup.ops[i].pc = "sending"
  /\ LET now == settled(popup.ops[i], res)
     IN  popup' = [popup EXCEPT !.settingsRef = now, !.settings = now,
                                !.ops[i].pc = "done", !.ops[i].res = res]
  /\ UNCHANGED <<settings, storage, debounced, local>>
  /\ ProgramUnchanged

InitPopup ==
  /\ Boot({})
  /\ settings = DEFAULT_FEATURE_TOGGLES
  /\ watch = "timeline"

PopupNext ==
  \/ \E res \in PopupResponses : PopupLoaded(res)
  \/ \E key \in Keys : toggleFeature(key)
  \/ toggleAllFeatures
  \/ \E i \in 1..MaxChanges : OperationStart(i)
  \/ \E i \in 1..MaxChanges, res \in PopupResponses : OperationSettle(i, res)

SpecPopup == InitPopup /\ [][PopupNext]_vars

\* C38: Popup optimistic update with rollback: the operations of the
\* popup's setting changes run one at a time, in the order the changes
\* were submitted; while a change is being sent the popup shows its
\* optimistic value; when the send has failed (no success, or an
\* exception) the popup's settings are the value they had before the
\* change, and otherwise they are the data of the response or, without
\* data, the optimistic value.
C38_OptimisticRollback ==
  LET ops == popup.ops
      n == Len(ops)
      latest(i) == i = n \/ ops[i + 1].pc = "queued"
  IN  /\ popup.settings = popup.settingsRef
      /\ \A i \in 1..n : \A j \in 1..n :
           (i < j /\ ops[j].pc # "queued") => ops[i].pc = "done"
      /\ \A i \in 1..n :
           /\ ops[i].pc = "sending" =>
                /\ ops[i].optimistic = buildOptimistic(ops[i].change,
                                                       ops[i].before)
                /\ popup.settingsRef = ops[i].optimistic
           /\ (ops[i].pc = "done" /\ latest(i)) =>
                popup.settingsRef =
                  IF ops[i].res.kind \in {"threw", "failure"}
                    THEN ops[i].before
                  ELSE IF ops[i].res.kind = "data" THEN ops[i].res.data
                  ELSE ops[i].optimistic

\* two changes were submitted before the first was sent; the send of the
\* first threw and its optimistic value was rolled back, the second was
\* confirmed without data
C38_Witness ==
  /\ Len(popup.ops) = 2
  /\ popup.ops[1].pc = "done"
  /\ popup.ops[2].pc = "done"
  /\ popup.ops[1].res.kind = "threw"
  /\ popup.ops[1].optimistic # popup.ops[1].before
  /\ popup.ops[2].previous = popup.ops[1].before
  /\ popup.ops[2].res.kind = "success"
  /\ popup.settingsRef = popup.ops[2].optimistic
  /\ popup.settingsRef # popup.ops[1].before

====
